---- MODULE Spec2Model ----
(***************************************************************************)
(* A model of esd_process: the NCEI crawl (ncei_scrape.py), its sqlite     *)
(* survey ledger (ncei_backend.py), the retrying connection layer          *)
(* (connect_to_server in ncei_scrape.py and ncei_query.py), the chunked    *)
(* region query (ncei_query.py) and the region files (regions.py).         *)
(*                                                                         *)
(* Python strings are modelled as sequences of one-character strings, so   *)
(* that split('/'), lower(), replace(' ', '_') and suffix slicing are      *)
(* computed as the code computes them.  '' is the empty sequence <<>>.     *)
(***************************************************************************)
EXTENDS Integers, Sequences, FiniteSets, TLC

VARIABLES
    ledger,              \* rows of the sqlite table 'surveys', in insertion order
    self,                \* the BaseBackend attributes saved to the ledger
    region,              \* NceiScrape.region is truthy (a region restriction is active)
    region_ship_name,    \* NceiScrape.region_ship_name
    region_survey_name,  \* NceiScrape.region_survey_name
    kluster_enabled,     \* kluster_process.kluster_enabled (the HSTB import succeeded)
    kluster_configured,  \* scrape_variables defines the settings run_kluster reads
    server_reconnect_retries,  \* scrape_variables.server_reconnect_retries
    fs,                  \* the local paths that exist (files and directories)
    stack,               \* the active _ncei_scrape calls, innermost last
    pc,                  \* where the running program is
    ev,                  \* what the last step did, in program order
    conn,                \* the locals of the running connect_to_server call
    faults,              \* failures the environment has produced so far
    crawl_no,            \* ncei_scrape calls started so far on this output folder
    hist,                \* what the current crawl has done (history)
    download,            \* the locals of the running download_multibeam_file call
    query,               \* the locals of the running NceiQuery.query call
    regions,             \* the Regions object (region_paths, region_bounds, region_wkt)
    schema               \* the tables of the sqlite file survey_database.sqlite3

vars == <<ledger, self, region, region_ship_name, region_survey_name, kluster_enabled,
          kluster_configured, server_reconnect_retries, fs, stack, pc, ev, conn,
          faults, crawl_no, hist, download, query,
          regions, schema>>

-----------------------------------------------------------------------------
(* Strings                                                                 *)

UpperChars == <<"A","B","C","D","E","F","G","H","I","J","K","L","M",
                "N","O","P","Q","R","S","T","U","V","W","X","Y","Z">>

LowerChars == <<"a","b","c","d","e","f","g","h","i","j","k","l","m",
                "n","o","p","q","r","s","t","u","v","w","x","y","z">>

LowerChar(c) ==
    IF \E i \in 1..Len(UpperChars) : UpperChars[i] = c
    THEN LowerChars[CHOOSE i \in 1..Len(UpperChars) : UpperChars[i] = c]
    ELSE c

\* str.lower()
Lower(s) == [i \in 1..Len(s) |-> LowerChar(s[i])]

\* str.replace(' ', '_')
ReplaceSpace(s) == [i \in 1..Len(s) |-> IF s[i] = " " THEN "_" ELSE s[i]]

\* s[-n:]
Suffix(s, n) == IF Len(s) <= n THEN s ELSE SubSeq(s, Len(s) - n + 1, Len(s))

\* s[:-n] for n > 0
DropSuffix(s, n) == IF Len(s) <= n THEN <<>> ELSE SubSeq(s, 1, Len(s) - n)

\* str.endswith('/')
EndsWithSlash(s) == Len(s) > 0 /\ s[Len(s)] = "/"

RECURSIVE LStripSlash(_)
\* str.lstrip('/')
LStripSlash(s) == IF Len(s) > 0 /\ s[1] = "/" THEN LStripSlash(Tail(s)) ELSE s

RECURSIVE RStripSlash(_)
\* str.rstrip('/')
RStripSlash(s) ==
    IF Len(s) > 0 /\ s[Len(s)] = "/" THEN RStripSlash(SubSeq(s, 1, Len(s) - 1)) ELSE s

RECURSIVE SplitFrom(_, _, _)
\* the segments of s between the slashes from position i on, the first of them
\* preceded by cur
SplitFrom(s, i, cur) ==
    IF \E k \in i..Len(s) : s[k] = "/"
    THEN LET k == CHOOSE k \in i..Len(s) : s[k] = "/" /\ \A j \in i..(k - 1) : s[j] # "/"
         IN  << cur \o SubSeq(s, i, k - 1) >> \o SplitFrom(s, k + 1, << >>)
    ELSE << cur \o SubSeq(s, i, Len(s)) >>

\* str.split('/'): the segments between the slashes; Python indexes them from 0
Split(s) == SplitFrom(s, 1, <<>>)

\* urldata[k] for the 0-based index k of Python
Seg(urldata, k) == urldata[k + 1]

\* list.index(x): the 1-based position of the first occurrence
IndexOf(list, x) == CHOOSE i \in 1..Len(list) : list[i] = x /\ \A j \in 1..(i - 1) : list[j] # x

InList(list, x) == \E i \in 1..Len(list) : list[i] = x

-----------------------------------------------------------------------------
(* Survey ledger (SqlBackend)                                              *)

\* the table _create_backend creates
SurveysTable == "surveys"

\* BaseBackend.__init__: the attributes populated during a scrape
BaseBackendInit ==
    [ ship_name |-> <<>>, survey_name |-> <<>>, survey_url |-> <<>>,
      raw_data_path |-> <<>>, processed_data_path |-> <<>>, grid_path |-> <<>>,
      downloaded_success_count |-> 0, downloaded_error_count |-> 0, ignored_count |-> 0 ]

\* _check_for_survey without the lower() of its arguments
_check_for_survey_exact(led, shipname, surveyname) ==
    \E i \in 1..Len(led) : led[i].ship_name = shipname /\ led[i].survey = surveyname

\* SELECT * FROM surveys WHERE ship_name="<lower>" and survey="<lower>"
_check_for_survey(led, shipname, surveyname) ==
    \E i \in 1..Len(led) :
        led[i].ship_name = Lower(shipname) /\ led[i].survey = Lower(surveyname)

\* _check_for_grid without the test of grid_path
_check_for_grid_any_row(led, shipname, surveyname) ==
    \E i \in 1..Len(led) :
        /\ led[i].ship_name = Lower(shipname)
        /\ led[i].survey = Lower(surveyname)

\* ... and grid_path != ""
_check_for_grid(led, shipname, surveyname) ==
    \E i \in 1..Len(led) :
        /\ led[i].ship_name = Lower(shipname)
        /\ led[i].survey = Lower(surveyname)
        /\ led[i].grid_path # <<>>

\* the VALUES of the INSERT statement with the names as the crawl holds them
InsertValues_as_held(s) ==
    [ ship_name |-> s.ship_name, survey |-> s.survey_name,
      downloaded_success |-> s.downloaded_success_count,
      downloaded_error |-> s.downloaded_error_count,
      ignored |-> s.ignored_count,
      raw_data_path |-> s.raw_data_path,
      processed_data_path |-> s.processed_data_path,
      grid_path |-> s.grid_path ]

\* the VALUES of the INSERT statement of _add_survey
InsertValues(s) ==
    [ ship_name |-> Lower(s.ship_name), survey |-> Lower(s.survey_name),
      downloaded_success |-> s.downloaded_success_count,
      downloaded_error |-> s.downloaded_error_count,
      ignored |-> s.ignored_count,
      raw_data_path |-> s.raw_data_path,
      processed_data_path |-> s.processed_data_path,
      grid_path |-> s.grid_path ]

\* _add_survey without the test of empty names
AddSurveyLedger_no_guard(led, s) ==
    IF ~_check_for_survey(led, s.ship_name, s.survey_name)
    THEN Append(led, InsertValues(s))
    ELSE led

\* _add_survey as an upsert: the row of a pair already present is overwritten
AddSurveyLedger_upsert(led, s) ==
    IF s.ship_name # <<>> /\ s.survey_name # <<>>
    THEN IF _check_for_survey(led, s.ship_name, s.survey_name)
         THEN [i \in 1..Len(led) |->
                  IF led[i].ship_name = Lower(s.ship_name)
                     /\ led[i].survey = Lower(s.survey_name)
                  THEN InsertValues(s) ELSE led[i]]
         ELSE Append(led, InsertValues(s))
    ELSE led

\* _add_survey as DELETE then INSERT: the row of a pair already present is removed
\* and the held values are appended
AddSurveyLedger_replace(led, s) ==
    IF s.ship_name # <<>> /\ s.survey_name # <<>>
    THEN Append(SelectSeq(led, LAMBDA r : ~(r.ship_name = Lower(s.ship_name)
                                            /\ r.survey = Lower(s.survey_name))),
                InsertValues(s))
    ELSE led

\* _add_survey, the table part: insert unless a name is empty or the pair is present
AddSurveyLedger(led, s) ==
    IF s.ship_name # <<>> /\ s.survey_name # <<>>
       /\ ~_check_for_survey(led, s.ship_name, s.survey_name)
    THEN Append(led, InsertValues(s))
    ELSE led

\* the columns of the table _create_backend creates
SurveysColumns ==
    { "ship_name", "survey", "downloaded_success", "downloaded_error", "ignored",
      "raw_data_path", "processed_data_path", "grid_path" }

\* the column names of the WHERE clause of _remove_survey
RemoveWhereColumns == << "shipname", "survey" >>

\* _remove_survey(shipname, surveyname):
\* DELETE FROM surveys WHERE shipname="<lower>" and survey="<lower>".
\* sqlite3 raises OperationalError (no such column) for a name that is no column
\* of the table; the statement then deletes nothing and commit() is not reached
_remove_survey(led, shipname, surveyname) ==
    IF \E i \in 1..Len(RemoveWhereColumns) : RemoveWhereColumns[i] \notin SurveysColumns
    THEN [raised |-> TRUE, ledger |-> led]
    ELSE [raised |-> FALSE,
          ledger |-> SelectSeq(led, LAMBDA r :
                        ~(r[RemoveWhereColumns[1]] = Lower(shipname)
                          /\ r[RemoveWhereColumns[2]] = Lower(surveyname)))]

\* _add_survey, the reset of the attributes (survey_url is not reset)
AddSurveyReset(s) ==
    [s EXCEPT !.ship_name = <<>>, !.survey_name = <<>>,
              !.downloaded_success_count = 0, !.downloaded_error_count = 0,
              !.ignored_count = 0,
              !.raw_data_path = <<>>, !.processed_data_path = <<>>, !.grid_path = <<>>]

-----------------------------------------------------------------------------
(* Connection layer (connect_to_server)                                    *)

\* scrape_variables.server_reconnect_retries
DefaultServerReconnectRetries == 10

\* connect_to_server before its first call
ConnIdle ==
    [ url |-> <<>>, retries |-> 0, current_tries |-> 0, gets |-> 0,
      warnings |-> 0, errors |-> 0, last_status |-> 0, out |-> "idle" ]

\* retries = scrape_variables.server_reconnect_retries; current_tries = 0
ConnectStart(url, cfg) ==
    [ url |-> url, retries |-> cfg, current_tries |-> 0, gets |-> 0,
      warnings |-> 0, errors |-> 0, last_status |-> 0, out |-> "running" ]

\* what one session.get(ncei_url) does: a response with a status code, or an
\* exception of the transport (connection refused, timeout, ...)
Response(status) == [raised |-> FALSE, status |-> status]

TransportError == [raised |-> TRUE, status |-> 0]

\* NceiScrape.connect_to_server: the loop test and, when it holds, one pass of the
\* loop body in which session.get answers `got`; nothing catches a transport error
connect_to_server(c, got) ==
    IF ~(c.current_tries < c.retries)
    THEN [c EXCEPT !.errors = @ + 1, !.out = "none"]
    ELSE IF got.raised
    THEN [c EXCEPT !.gets = @ + 1, !.out = "raised"]
    ELSE IF got.status >= 200 /\ got.status < 300
    THEN [c EXCEPT !.gets = @ + 1, !.last_status = got.status, !.out = "resp"]
    ELSE [c EXCEPT !.gets = @ + 1, !.last_status = got.status,
                   !.retries = @ + 1, !.warnings = @ + 1]

\* NceiQuery.connect_to_server: the same loop, logging through _print
query_connect_to_server(c, got) ==
    IF ~(c.current_tries < c.retries)
    THEN [c EXCEPT !.errors = @ + 1, !.out = "none"]
    ELSE IF got.raised
    THEN [c EXCEPT !.gets = @ + 1, !.out = "raised"]
    ELSE IF got.status >= 200 /\ got.status < 300
    THEN [c EXCEPT !.gets = @ + 1, !.last_status = got.status, !.out = "resp"]
    ELSE [c EXCEPT !.gets = @ + 1, !.last_status = got.status,
                   !.retries = @ + 1, !.warnings = @ + 1]

\* scrape_variables.download_retries
DefaultDownloadRetries == 20

\* no download_multibeam_file call is running
DownloadIdle ==
    [output_path |-> << >>, download_retries |-> 0, retries |-> 0, attempts |-> 0,
     at |-> "idle", out |-> "idle"]

\* download_multibeam_file(ncei_url, output_path) has just been called with
\* scrape_variables.download_retries = cfg
DownloadStart(output_path, cfg) ==
    [output_path |-> output_path, download_retries |-> cfg, retries |-> 0,
     attempts |-> 0, at |-> "exists", out |-> "running"]

\* what one attempt meets: the stream is read and written; urlopen raises; open()
\* of the destination raises; the read or the decompression raises after open() has
\* created the destination
AttemptOutcomes == {"ok", "urlopen_raises", "open_raises", "read_raises"}

\* download_multibeam_file without `retries += 1` in the except clause
download_multibeam_file_pass_no_count(d, files, got) ==
    IF d.at = "exists"
    THEN IF d.output_path \in files
         THEN [d |-> [d EXCEPT !.at = "done", !.out = "true"], files |-> files]
         ELSE [d |-> [d EXCEPT !.at = "loop"], files |-> files]
    ELSE IF got = "ok"
    THEN [d |-> [d EXCEPT !.attempts = @ + 1, !.at = "done", !.out = "true"],
          files |-> files \cup {d.output_path}]
    ELSE [d |-> [d EXCEPT !.attempts = @ + 1],
          files |-> IF got = "read_raises" THEN files \cup {d.output_path} ELSE files]

\* download_multibeam_file, one step: the test of lines 366-368, then one pass of
\* `while retries < scrape_variables.download_retries` per step (lines 370-388)
download_multibeam_file_pass(d, files, got) ==
    IF d.at = "exists"
    THEN IF d.output_path \in files
         THEN [d |-> [d EXCEPT !.at = "done", !.out = "true"], files |-> files]
         ELSE [d |-> [d EXCEPT !.at = "loop"], files |-> files]
    ELSE IF ~(d.retries < d.download_retries)
    THEN [d |-> [d EXCEPT !.at = "done", !.out = "false"], files |-> files]
    ELSE IF got = "ok"
    THEN [d |-> [d EXCEPT !.attempts = @ + 1, !.at = "done", !.out = "true"],
          files |-> files \cup {d.output_path}]
    ELSE [d |-> [d EXCEPT !.attempts = @ + 1, !.retries = @ + 1],
          files |-> IF got = "read_raises" THEN files \cup {d.output_path} ELSE files]

-----------------------------------------------------------------------------
(* The region query (NceiQuery.query) and the names derived from it        *)

\* the most object ids one follow-up query asks for (the literal 500 of query)
ChunkSize == 500

\* a Python dict answered by the server or held in feature_data: {} is "empty",
\* a dict with a 'features' list is "features", a dict with an 'error' key and no
\* 'features' is "error".  query never looks inside a feature; while the query
\* runs a feature is named by the object id it answers
EmptyDict == [kind |-> "empty", features |-> << >>]

FeatureDict(features) == [kind |-> "features", features |-> features]

ErrorDict == [kind |-> "error", features |-> << >>]

\* no query is running
QueryIdle ==
    [ envelope_extents |-> << >>, cnt |-> 0, at |-> "idle", object_ids |-> << >>,
      total_length |-> 0, object_count |-> 0, start_index |-> 0, end_index |-> 0,
      runs |-> 0, run_idx |-> 0, feature_data |-> EmptyDict ]

\* query lines 314-316: the parameters are validated and the envelopes built
QueryStart(envelope_extents) ==
    [QueryIdle EXCEPT !.envelope_extents = envelope_extents, !.at = "envelope"]

\* int(np.ceil(a / b)) for a >= 0, b > 0
CeilDiv(a, b) == (a + b - 1) \div b

Min(a, b) == IF a < b THEN a ELSE b

\* _query_object_ids: what the identifiers-only query returns for a server answer
\* got: the 'objectIds' list, or [] when the answer has none (null, an error
\* answer, or no connection)
_query_object_ids(got) ==
    IF got.kind = "ids" THEN got.objectIds ELSE << >>

\* query lines 317-343 with an empty identifiers-only answer ending the query
query_envelope_abort_on_empty(q, got) ==
    LET object_ids == _query_object_ids(got)
        total_length == Len(object_ids)
        end_index == Min(ChunkSize, total_length)
        base == [q EXCEPT !.object_ids = object_ids,
                          !.total_length = total_length,
                          !.object_count = @ + total_length]
    IN  IF object_ids # << >>
        THEN [q |-> [base EXCEPT !.start_index = 0,
                                 !.end_index = end_index,
                                 !.runs = CeilDiv(total_length, end_index),
                                 !.run_idx = 0,
                                 !.at = "chunk"],
              error |-> FALSE]
        ELSE [q |-> [base EXCEPT !.cnt = @ + 1, !.at = "returned"],
              error |-> TRUE]

\* query lines 317-327 with runs the quotient by the chunk size plus one
query_envelope_quotient_plus_one(q, got) ==
    LET object_ids == _query_object_ids(got)
        total_length == Len(object_ids)
        end_index == Min(ChunkSize, total_length)
        base == [q EXCEPT !.object_ids = object_ids,
                          !.total_length = total_length,
                          !.object_count = @ + total_length]
    IN  IF object_ids # << >>
        THEN [q |-> [base EXCEPT !.start_index = 0,
                                 !.end_index = end_index,
                                 !.runs = (total_length \div ChunkSize) + 1,
                                 !.run_idx = 0,
                                 !.at = "chunk"],
              error |-> FALSE]
        ELSE [q |-> [base EXCEPT !.cnt = @ + 1,
                                 !.at = IF q.cnt + 1 < Len(q.envelope_extents)
                                        THEN "envelope" ELSE "returned"],
              error |-> TRUE]

\* query lines 317-327 and 342-343 for the next envelope: the identifiers-only
\* query, then either the set-up of the chunk loop or the error message
query_envelope(q, got) ==
    LET object_ids == _query_object_ids(got)
        total_length == Len(object_ids)
        end_index == Min(ChunkSize, total_length)
        base == [q EXCEPT !.object_ids = object_ids,
                          !.total_length = total_length,
                          !.object_count = @ + total_length]
    IN  IF object_ids # << >>
        THEN [q |-> [base EXCEPT !.start_index = 0,
                                 !.end_index = end_index,
                                 !.runs = CeilDiv(total_length, end_index),
                                 !.run_idx = 0,
                                 !.at = "chunk"],
              error |-> FALSE]
        ELSE [q |-> [base EXCEPT !.cnt = @ + 1,
                                 !.at = IF q.cnt + 1 < Len(q.envelope_extents)
                                        THEN "envelope" ELSE "returned"],
              error |-> TRUE]

\* object_ids[start_index:end_index]
Slice(list, start_index, end_index) ==
    SubSeq(list, start_index + 1, Min(end_index, Len(list)))

\* the answer of the server to a follow-up query for chunk_ids
FollowUpAnswer(chunk_ids, got) ==
    IF got = "features" THEN FeatureDict(chunk_ids)
    ELSE IF got = "error" THEN ErrorDict
    ELSE EmptyDict

\* query lines 328-341: one pass of the chunk loop; got is how the follow-up query
\* went ("features", "error" for an error answer, "none" for no connection)
query_chunk(q, got) ==
    LET chunk_ids == Slice(q.object_ids, q.start_index, q.end_index)
        json_data == FollowUpAnswer(chunk_ids, got)
        truthy == q.feature_data.kind # "empty"
        keyerror == got # "none" /\ truthy
                       /\ (q.feature_data.kind = "error" \/ json_data.kind = "error")
        feature_data ==
            IF got = "none" THEN q.feature_data
            ELSE IF ~truthy THEN json_data
            ELSE FeatureDict(q.feature_data.features \o json_data.features)
        last == q.run_idx + 1 = q.runs
    IN  [chunk_ids |-> chunk_ids,
         q |-> IF keyerror THEN [q EXCEPT !.at = "raised"]
               ELSE [q EXCEPT !.feature_data = feature_data,
                              !.start_index = q.end_index,
                              !.end_index = Min(q.end_index + ChunkSize, q.total_length),
                              !.run_idx = @ + 1,
                              !.cnt = IF last THEN @ + 1 ELSE @,
                              !.at = IF ~last THEN "chunk"
                                     ELSE IF q.cnt + 1 < Len(q.envelope_extents)
                                     THEN "envelope" ELSE "returned"]]

\* a feature as the server answers it for include_fields = ('PLATFORM', 'SURVEY_ID')
Feature(platform, survey_id) ==
    [attributes |-> [PLATFORM |-> platform, SURVEY_ID |-> survey_id]]

RECURSIVE UniqueNames(_, _, _, _)
\* survey_names_in_region lines 429-432: the loop over survey_name from position cnt
UniqueNames(features, cnt, unique_ship_name, unique_survey_name) ==
    IF cnt > Len(features) THEN << unique_ship_name, unique_survey_name >>
    ELSE LET surv == features[cnt].attributes.SURVEY_ID
             ship == features[cnt].attributes.PLATFORM
         IN  IF ~InList(unique_survey_name, surv)
             THEN UniqueNames(features, cnt + 1, Append(unique_ship_name, Lower(ship)),
                              Append(unique_survey_name, Lower(surv)))
             ELSE UniqueNames(features, cnt + 1, unique_ship_name, unique_survey_name)

\* survey_names_in_region, given what mq.query returned: the two lists, or the
\* KeyError of rawmbes_data['features'] on a dict without that key
survey_names_in_region(rawmbes_data) ==
    IF rawmbes_data.kind = "empty"
    THEN [raised |-> FALSE, unique_ship_name |-> << >>, unique_survey_name |-> << >>]
    ELSE IF rawmbes_data.kind = "error"
    THEN [raised |-> TRUE, unique_ship_name |-> << >>, unique_survey_name |-> << >>]
    ELSE LET r == UniqueNames(rawmbes_data.features, 1, << >>, << >>)
         IN  [raised |-> FALSE, unique_ship_name |-> r[1], unique_survey_name |-> r[2]]

-----------------------------------------------------------------------------
(* Configuration (scrape_variables) and the archive the crawl meets        *)

\* NceiScrape.ncei_url = "https://data.ngdc.noaa.gov/platforms/ocean/ships/"
ncei_url == <<"h","t","t","p","s",":","/","/","d","a","t","a",".","n","g","d","c",".",
              "n","o","a","a",".","g","o","v","/","p","l","a","t","f","o","r","m","s","/",
              "o","c","e","a","n","/","s","h","i","p","s","/">>

\* scrape_variables.output_directory = 'D:'
output_folder == <<"D",":">>

\* scrape_variables.extensions = ('.mb58.gz', '.mb59.gz')
extensions == { <<".","m","b","5","8",".","g","z">>, <<".","m","b","5","9",".","g","z">> }

\* scrape_variables.exclude_vessels (the members the archive below can meet)
exclude_vessels == { <<"a","h","i">>, <<"n","o","n","p","u","b","l","i","c">>,
                     <<"u","n","k","n","o","w","n">> }

\* the extensions kluster_process keeps (scrape_variables.processing_extensions,
\* which a configured installation sets to the raw multibeam extensions)
processing_extensions == { <<".","a","l","l">> }

\* '_processed'
ProcessedSuffix == <<"_","p","r","o","c","e","s","s","e","d">>

\* f'kluster_export_{kgt}_{kgr}.{kgf}' with the scrape_variables defaults
GridFileName == <<"k","l","u","s","t","e","r","_","e","x","p","o","r","t","_","s","i","n","g",
                  "l","e","_","r","e","s","o","l","u","t","i","o","n","_","N","o","n","e",
                  ".","b","a","g">>

Slash == <<"/">>

\* an <a> tag: its href attribute, its text, and whether it has attributes at all
A(href, text) == [href |-> href, text |-> text, attrs |-> TRUE]

\* a sub-directory link as the archive writes it: href and text are both 'name/'
Dir(name) == A(name \o Slash, name \o Slash)

\* a file link
File(name) == A(name, name)

ShipAhi == <<"a","h","i">>
ShipAl  == <<"a","l">>
ShipBC  == <<"b","_","c">>
SurveyS1 == <<"S","1">>
SurveyS2 == <<"s","2">>
SurveyS3 == <<"s","3">>
DirD == <<"d">>

FileF == <<"f",".","a","l","l",".","m","b","5","8",".","g","z">>
FileH == <<"h",".","a","l","l",".","m","b","5","9",".","g","z">>
FileK == <<"k",".","a","l","l",".","m","b","5","8",".","g","z">>
FileM == <<"m",".","a","l","l",".","m","b","5","8",".","g","z">>
FileN == <<"n",".","g","z">>
FileR == <<"r",".","t","x","t">>
FileZ == <<"z",".","a","l","l",".","m","b","5","8",".","g","z">>

Url(segs) == ncei_url \o segs

\* The HTML the server answers for a listing URL: the anchors of the page, in order.
\* ships ahi (excluded), al (surveys S1, s2) and b_c (surveys S1, s3); the file of
\* al/S1 lies one directory down, in al/S1/d/; a stray raw file lies at the root.
Listing(site) ==
    CASE site = ncei_url ->
            << A(<<"/","p","l","a","t","f","o","r","m","s","/","o","c","e","a","n","/">>,
                 <<"P","a","r","e","n","t">>),
               Dir(ShipAhi), File(FileZ), Dir(ShipAl), Dir(ShipBC) >>
      [] site = Url(ShipAhi \o Slash) -> << Dir(SurveyS1) >>
      [] site = Url(ShipAl \o Slash) -> << Dir(SurveyS1), Dir(SurveyS2) >>
      [] site = Url(ShipBC \o Slash) -> << Dir(SurveyS1), Dir(SurveyS3) >>
      [] site = Url(ShipAl \o Slash \o SurveyS1 \o Slash) -> << File(FileN), Dir(DirD) >>
      [] site = Url(ShipAl \o Slash \o SurveyS1 \o Slash \o DirD \o Slash) -> << File(FileF) >>
      [] site = Url(ShipAl \o Slash \o SurveyS2 \o Slash) ->
            << File(FileR), File(FileH), File(FileN) >>
      [] site = Url(ShipBC \o Slash \o SurveyS1 \o Slash) -> << File(FileK) >>
      [] site = Url(ShipBC \o Slash \o SurveyS3 \o Slash) -> << File(FileM) >>
      [] OTHER -> << >>

-----------------------------------------------------------------------------
(* Local paths (os.path, posix flavour)                                    *)

\* os.path.join(a, b) for a relative b
Join(a, b) ==
    IF a = <<>> THEN b
    ELSE IF a[Len(a)] = "/" THEN a \o b
    ELSE a \o Slash \o b

\* the position of the last c in p, 0 if there is none
LastIndexOf(p, c) ==
    IF \E i \in 1..Len(p) : p[i] = c
    THEN CHOOSE i \in 1..Len(p) : p[i] = c /\ \A j \in (i + 1)..Len(p) : p[j] # c
    ELSE 0

\* os.path.dirname(p)
Dirname(p) ==
    LET head == SubSeq(p, 1, LastIndexOf(p, "/"))
    IN  IF head # <<>> /\ RStripSlash(head) # <<>> THEN RStripSlash(head) ELSE head

\* os.path.splitext(p)[1]
Splitext(p) ==
    LET slash == LastIndexOf(p, "/")
        dot == LastIndexOf(p, ".")
    IN  IF dot > slash /\ \E j \in (slash + 1)..(dot - 1) : p[j] # "."
        THEN SubSeq(p, dot, Len(p))
        ELSE <<>>

\* _parse_multibeam_file_link: splitdata[6], splitdata[7], splitdata[-1];
\* indexing a shorter split raises IndexError
_parse_multibeam_file_link(filelink) ==
    LET splitdata == Split(filelink)
    IN  IF Len(splitdata) < 8
        THEN [raised |-> TRUE, shipname |-> <<>>, surveyname |-> <<>>, filename |-> <<>>]
        ELSE [raised |-> FALSE, shipname |-> Seg(splitdata, 6),
              surveyname |-> Seg(splitdata, 7), filename |-> splitdata[Len(splitdata)]]

\* the directory _build_output_path makes: os.path.join(output_folder, shipname, surveyname)
SurveyFolder(shipname, surveyname) == Join(Join(output_folder, shipname), surveyname)

\* _build_output_path: the path of the downloaded file, filename[:-len(file_extension)]
_build_output_path(file_extension, shipname, surveyname, filename) ==
    Join(SurveyFolder(shipname, surveyname), DropSuffix(filename, Len(file_extension)))

\* os.makedirs(os.path.join(output_folder, shipname, surveyname), exist_ok=True)
MakeSurveyFolder(files, shipname, surveyname) ==
    files \cup {output_folder, Join(output_folder, shipname), SurveyFolder(shipname, surveyname)}

-----------------------------------------------------------------------------
(* Regions (regions.py)                                                    *)

\* os.path.splitext(p)[0]
SplitextRoot(p) == SubSeq(p, 1, Len(p) - Len(Splitext(p)))

\* os.path.split(p)[1]
Basename(p) == SubSeq(p, LastIndexOf(p, "/") + 1, Len(p))

GpkgExt == <<".","g","p","k","g">>

RegionsFolder == <<"r">>

RegionA == <<"a">>
RegionB == <<"b">>
RegionC == <<"c">>

\* the path os.path.join(self.regions_folder, pkg) of the geopackage of a region
RegionPath(name) == Join(RegionsFolder, name \o GpkgExt)

\* Regions.region_paths: the geopackages found in the regions folder, in the
\* order os.listdir gave them
RegionPaths == << RegionPath(RegionA), RegionPath(RegionB), RegionPath(RegionC) >>

\* an Esri envelope
Box(xmin, ymin, xmax, ymax) == [xmin |-> xmin, ymin |-> ymin, xmax |-> xmax, ymax |-> ymax]

\* what region_envelope_from_geopackage returns for a readable geopackage: region a
\* has two disjoint boxes, b one, and the box of c touches the first box of a in a
\* corner
FileBounds(regi) ==
    CASE regi = RegionPath(RegionA) -> << Box(0, 0, 1, 1), Box(3, 0, 4, 1) >>
      [] regi = RegionPath(RegionB) -> << Box(6, 0, 7, 1) >>
      [] regi = RegionPath(RegionC) -> << Box(1, 1, 2, 2) >>

\* what region_wkt_from_geopackage returns for a readable geopackage: one wkt
\* string for each feature
FileWkt(regi) ==
    [i \in 1..Len(FileBounds(regi)) |-> [wkt_of |-> regi, feature |-> i]]

\* no Regions object
RegionsNone ==
    [region_paths |-> << >>, region_bounds |-> << >>, region_wkt |-> << >>, built |-> 0]

\* Regions.__init__ lines 18-26: the paths are listed, the lists are empty
RegionsStart ==
    [region_paths |-> RegionPaths, region_bounds |-> << >>, region_wkt |-> << >>,
     built |-> 0]

\* _build_region_lists, one pass of its loop: got tells whether building the
\* bounds and building the wkt of the next geopackage went through or raised
_build_region_lists_pass(r, got) ==
    LET regi == r.region_paths[r.built + 1]
    IN  [r EXCEPT !.region_bounds = IF got.bounds THEN Append(@, FileBounds(regi)) ELSE @,
                  !.region_wkt = IF got.wkt THEN Append(@, FileWkt(regi)) ELSE @,
                  !.built = @ + 1]

\* return_region_by_name: a value, None, or the IndexError of indexing a list
\* shorter than region_paths
return_region_by_name(r, region_name, return_bounds, return_wkt) ==
    LET paths == r.region_paths
        full == SelectSeq(paths, LAMBDA regi : regi = region_name)
        stem == SplitextRoot(region_name)
        match_region ==
            IF full # << >> THEN full
            ELSE SelectSeq(paths, LAMBDA regi : Basename(SplitextRoot(regi)) = stem)
        index == IndexOf(paths, match_region[1])
        At(list) == IF index <= Len(list)
                    THEN [kind |-> "value", value |-> list[index]]
                    ELSE [kind |-> "raised", value |-> << >>]
    IN  IF match_region = << >> THEN [kind |-> "none", value |-> << >>]
        ELSE IF return_wkt THEN At(r.region_wkt)
        ELSE IF return_bounds THEN At(r.region_bounds)
        ELSE [kind |-> "value", value |-> match_region[1]]

\* the test of line 94
InBounds(lon, lat, bounds) ==
    lon >= bounds.xmin /\ lon <= bounds.xmax /\ lat >= bounds.ymin /\ lat <= bounds.ymax

RECURSIVE PositionScan(_, _, _, _, _)
\* return_regions_by_position lines 92-95 from entry cnt, box k of region_bounds
PositionScan(r, lon, lat, cnt, k) ==
    IF cnt > Len(r.region_bounds) THEN << >>
    ELSE IF k > Len(r.region_bounds[cnt]) THEN PositionScan(r, lon, lat, cnt + 1, 1)
    ELSE IF InBounds(lon, lat, r.region_bounds[cnt][k])
    THEN << r.region_paths[cnt] >> \o PositionScan(r, lon, lat, cnt, k + 1)
    ELSE PositionScan(r, lon, lat, cnt, k + 1)

\* return_regions_by_position
return_regions_by_position(r, lon, lat) == PositionScan(r, lon, lat, 1, 1)

-----------------------------------------------------------------------------
(* The sqlite file of the ledger (SqlBackend._configure_backend)           *)

\* os.path.join(self.output_folder, 'survey_database.sqlite3')
database_file ==
    Join(output_folder, <<"s","u","r","v","e","y","_","d","a","t","a","b","a","s","e",
                          ".","s","q","l","i","t","e","3">>)

\* _create_backend: CREATE TABLE surveys (...)
_create_backend(tables) == tables \cup {SurveysTable}

\* _configure_backend: sqlite3.connect makes the file if it is not there; the table
\* is created only when the file was not there
_configure_backend(files, tables) ==
    LET needs_create == database_file \notin files
    IN  [files |-> files \cup {database_file},
         tables |-> IF needs_create THEN _create_backend(tables) ELSE tables]

-----------------------------------------------------------------------------
(* Crawl handlers (NceiScrape)                                             *)

\* the skip decision without the ledger's completed-grid check
SkipDecision_no_grid_check(led, s, rship, rsurvey) ==
    IF rsurvey = <<>> THEN "region_empty"
    ELSE IF ~InList(rsurvey, Lower(s.survey_name)) THEN "survey_not_in_region"
    ELSE IF ReplaceSpace(rship[IndexOf(rsurvey, Lower(s.survey_name))]) # s.ship_name
         THEN "ship_mismatch"
    ELSE "search"

\* the skip decision without the ship-name check
SkipDecision_no_ship_check(led, s, rship, rsurvey) ==
    IF rsurvey = <<>> THEN "region_empty"
    ELSE IF ~InList(rsurvey, Lower(s.survey_name)) THEN "survey_not_in_region"
    ELSE IF _check_for_grid(led, s.ship_name, s.survey_name) THEN "already_processed"
    ELSE "search"

\* the skip decision of _allow_shipname_surveyname at a (ship, survey) boundary,
\* in the order of the code; "search" is the return True
SkipDecision(led, s, rship, rsurvey) ==
    IF rsurvey = <<>> THEN "region_empty"
    ELSE IF ~InList(rsurvey, Lower(s.survey_name)) THEN "survey_not_in_region"
    ELSE IF ReplaceSpace(rship[IndexOf(rsurvey, Lower(s.survey_name))]) # s.ship_name
         THEN "ship_mismatch"
    ELSE IF _check_for_grid(led, s.ship_name, s.survey_name) THEN "already_processed"
    ELSE "search"

\* the boundary test as len(urldata) >= 9
IsSurveyBoundary_atleast(urldata) == Len(urldata) >= 9

\* len(urldata) == 9
IsSurveyBoundary(urldata) == Len(urldata) = 9

\* the attributes after the boundary assignments: ship_name = urldata[6],
\* survey_name = urldata[7], survey_url = ncei_url, raw_data_path = ''
SetSurvey(s, urldata, url) ==
    [s EXCEPT !.ship_name = Seg(urldata, 6), !.survey_name = Seg(urldata, 7),
              !.survey_url = url, !.raw_data_path = <<>>]

\* _allow_shipname_surveyname(ncei_url): what it returns and what it leaves behind.
\* log lists what it did, in program order.
_allow_shipname_surveyname(url, led, s, rship, rsurvey) ==
    LET urldata == Split(url)
    IN  IF IsSurveyBoundary(urldata)
        THEN LET led1 == AddSurveyLedger(led, s)
                 s1 == SetSurvey(AddSurveyReset(s), urldata, url)
                 why == SkipDecision(led1, s1, rship, rsurvey)
             IN  [ ret |-> why = "search", why |-> why, ledger |-> led1, self |-> s1,
                   log |-> << [op |-> "add_survey", ship |-> s.ship_name,
                               survey |-> s.survey_name, inserted |-> led1 # led,
                               row |-> InsertValues(s)],
                              [op |-> "set_survey", ship |-> s1.ship_name,
                               survey |-> s1.survey_name, inserted |-> FALSE],
                              [op |-> why, ship |-> s1.ship_name,
                               survey |-> s1.survey_name, inserted |-> FALSE] >> ]
        ELSE [ ret |-> TRUE, why |-> "not_boundary", ledger |-> led, self |-> s,
               log |-> << >> ]

\* _skip_to_gridding(ncei_url): the processed folder exists and the raw folder does not
_skip_to_gridding(url, files, s) ==
    IF Suffix(url, 8) \in extensions
    THEN LET parsed == _parse_multibeam_file_link(url)
             raw == Dirname(_build_output_path(Suffix(url, 8), parsed.shipname,
                                               parsed.surveyname, parsed.filename))
             processed == raw \o ProcessedSuffix
         IN  IF parsed.raised
             THEN [raised |-> TRUE, ret |-> FALSE, self |-> s]
             ELSE IF processed \in files /\ raw \notin files
             THEN [raised |-> FALSE, ret |-> TRUE,
                   self |-> [s EXCEPT !.raw_data_path = raw,
                                      !.processed_data_path = processed]]
             ELSE [raised |-> FALSE, ret |-> FALSE, self |-> s]
    ELSE [raised |-> FALSE, ret |-> FALSE, self |-> s]

\* what the server and the disk do to one call of download_multibeam_file:
\* "ok": an attempt succeeds; "fail": every urlopen raises; "partial": every attempt
\* fails after open(output_path, 'wb') has created the file
DownloadOutcomes == {"ok", "fail", "partial"}

\* download_multibeam_file without the test for an existing destination
download_multibeam_file_no_skip(files, output_path, dl) ==
    IF dl = "ok"
    THEN [success |-> TRUE, files |-> files \cup {output_path}, network |-> TRUE]
    ELSE IF dl = "partial"
    THEN [success |-> FALSE, files |-> files \cup {output_path}, network |-> TRUE]
    ELSE [success |-> FALSE, files |-> files, network |-> TRUE]

\* download_multibeam_file(ncei_url, output_path)
download_multibeam_file(files, output_path, dl) ==
    IF output_path \in files
    THEN [success |-> TRUE, files |-> files, network |-> FALSE]
    ELSE IF dl = "ok"
    THEN [success |-> TRUE, files |-> files \cup {output_path}, network |-> TRUE]
    ELSE IF dl = "partial"
    THEN [success |-> FALSE, files |-> files \cup {output_path}, network |-> TRUE]
    ELSE [success |-> FALSE, files |-> files, network |-> TRUE]

\* _download_file_url with the '.gz' test made first
_download_file_url_gz_first(url, files, s, dl) ==
    IF Suffix(url, 3) = <<".","g","z">>
    THEN [raised |-> FALSE, files |-> files, network |-> FALSE, success |-> FALSE,
          self |-> [s EXCEPT !.ignored_count = @ + 1]]
    ELSE [raised |-> FALSE, files |-> files, network |-> FALSE, success |-> FALSE, self |-> s]

\* _download_file_url(nceifile)
_download_file_url(url, files, s, dl) ==
    IF Suffix(url, 8) \in extensions
    THEN LET parsed == _parse_multibeam_file_link(url)
             output_path == _build_output_path(Suffix(url, 8), parsed.shipname,
                                               parsed.surveyname, parsed.filename)
             files1 == MakeSurveyFolder(files, parsed.shipname, parsed.surveyname)
             got == download_multibeam_file(files1, output_path, dl)
             raw == Dirname(output_path)
         IN  IF parsed.raised
             THEN [raised |-> TRUE, files |-> files, self |-> s, network |-> FALSE,
                   success |-> FALSE]
             ELSE IF got.success
             THEN [raised |-> FALSE, files |-> got.files, network |-> got.network,
                   success |-> TRUE,
                   self |-> [s EXCEPT !.downloaded_success_count = @ + 1,
                                      !.raw_data_path = raw,
                                      !.processed_data_path = raw \o ProcessedSuffix,
                                      !.grid_path = Join(raw \o ProcessedSuffix, GridFileName)]]
             ELSE [raised |-> FALSE, files |-> got.files, network |-> got.network,
                   success |-> FALSE,
                   self |-> [s EXCEPT !.downloaded_error_count = @ + 1]]
    ELSE IF Suffix(url, 3) = <<".","g","z">>
    THEN [raised |-> FALSE, files |-> files, network |-> FALSE, success |-> FALSE,
          self |-> [s EXCEPT !.ignored_count = @ + 1]]
    ELSE [raised |-> FALSE, files |-> files, network |-> FALSE, success |-> FALSE, self |-> s]

\* what the processing engine does in one call of run_kluster:
\* <<processed, gridded>>, or "raise" for an exception outside its two try blocks
KlusterOutcomes == {"TT", "TF", "FT", "FF", "raise"}

\* run_kluster(multibeam_files, outfold): line 58 reads three scrape_variables settings
\* and raises AttributeError when they are not defined; a successful grid deletes the
\* raw files it was given
run_kluster(multibeam_files, outfold, files, configured, k) ==
    IF ~configured \/ k = "raise"
    THEN [raised |-> TRUE, processed |-> FALSE, gridded |-> FALSE, files |-> files]
    ELSE [raised |-> FALSE, processed |-> k \in {"TT", "TF"}, gridded |-> k \in {"TT", "FT"},
          files |-> IF k \in {"TT", "FT"}
                    THEN (files \cup {outfold}) \ multibeam_files
                    ELSE files \cup {outfold}]

\* the list comprehension of kluster_process: the files of raw_data_path with a
\* processing extension; [] when listing or reading the setting raises
MultibeamFiles(files, raw, configured) ==
    IF configured /\ raw \in files
    THEN {f \in files : Dirname(f) = raw /\ Splitext(f) \in processing_extensions}
    ELSE {}

\* kluster_process handing off only when the raw folder is on disk
kluster_process_needs_raw(s, files, enabled, configured, k) ==
    IF s.raw_data_path \in files /\ enabled /\ s.processed_data_path # <<>>
    THEN LET multibeamfiles == MultibeamFiles(files, s.raw_data_path, configured)
             files1 == files \cup {s.processed_data_path}
             r == run_kluster(multibeamfiles, s.processed_data_path, files1, configured, k)
         IN  [ called |-> TRUE, raised |-> r.raised, files |-> r.files,
               given |-> multibeamfiles, processed |-> r.processed, gridded |-> r.gridded,
               self |-> IF r.raised THEN s
                        ELSE [s EXCEPT !.processed_data_path =
                                           IF r.processed THEN @ ELSE <<>>,
                                       !.grid_path = IF r.gridded THEN @ ELSE <<>>] ]
    ELSE [ called |-> FALSE, raised |-> FALSE, files |-> files, given |-> {},
           processed |-> FALSE, gridded |-> FALSE, self |-> s ]

\* kluster_process()
kluster_process(s, files, enabled, configured, k) ==
    IF s.raw_data_path # <<>> /\ enabled /\ s.processed_data_path # <<>>
    THEN LET multibeamfiles == MultibeamFiles(files, s.raw_data_path, configured)
             files1 == files \cup {s.processed_data_path}
             r == run_kluster(multibeamfiles, s.processed_data_path, files1, configured, k)
         IN  [ called |-> TRUE, raised |-> r.raised, files |-> r.files,
               given |-> multibeamfiles, processed |-> r.processed, gridded |-> r.gridded,
               self |-> IF r.raised THEN s
                        ELSE [s EXCEPT !.processed_data_path =
                                           IF r.processed THEN @ ELSE <<>>,
                                       !.grid_path = IF r.gridded THEN @ ELSE <<>>] ]
    ELSE [ called |-> FALSE, raised |-> FALSE, files |-> files, given |-> {},
           processed |-> FALSE, gridded |-> FALSE, self |-> s ]

-----------------------------------------------------------------------------
(* The crawl as a state machine: one frame per active _ncei_scrape call    *)

\* the most ncei_scrape runs on one output folder
MaxCrawls == 2

\* the most failures (non-2xx answers, transport errors, failed downloads,
\* failed processing) the environment produces over all runs
MaxFaults == 2

\* status codes the archive server answers with during a crawl
CrawlStatusCodes == {200, 500}

Front(stk) == SubSeq(stk, 1, Len(stk) - 1)

Top == stack[Len(stack)]

\* the stack with its innermost frame replaced
WithTop(f) == [stack EXCEPT ![Len(stack)] = f]

\* _ncei_scrape(nceisite, shiplevel) has just been called
Frame(site, shiplevel) ==
    [site |-> site, shiplevel |-> shiplevel, at |-> "enter", anchors |-> << >>]

HistInit(led) ==
    [ ledger0 |-> led, reached |-> << >>, fetched |-> {}, downloads |-> {},
      handoffs |-> << >>, exported |-> {}, failed |-> {} ]

\* the innermost call returns; the outermost return is followed by close()
Return ==
    /\ stack' = Front(stack)
    /\ pc' = IF Len(stack) = 1 THEN "done" ELSE "crawl"

\* the exception is caught nowhere: it ends the crawl
Raise_abort ==
    /\ stack' = << >>
    /\ pc' = "raised"

\* the innermost call raises: the caller's except clause logs it and goes on with
\* its next anchor; out of the outermost call it leaves ncei_scrape, before close()
Raise ==
    /\ stack' = Front(stack)
    /\ pc' = IF Len(stack) = 1 THEN "raised" ELSE "crawl"

\* NceiScrape(...).ncei_scrape(): a new object on the same output folder, then
\* self._ncei_scrape(self.ncei_url, True)
StartCrawl ==
    /\ pc \in {"idle", "done", "raised"}
    /\ crawl_no < MaxCrawls
    /\ pc' = "crawl"
    /\ crawl_no' = crawl_no + 1
    /\ self' = BaseBackendInit
    /\ conn' = ConnIdle
    /\ stack' = << Frame(ncei_url, TRUE) >>
    /\ hist' = HistInit(ledger)
    /\ ev' = [act |-> "StartCrawl", url |-> ncei_url, log |-> << >>]
    /\ UNCHANGED <<schema, regions, query, download, ledger, region, region_ship_name, region_survey_name, kluster_enabled,
                   kluster_configured, server_reconnect_retries, fs, faults>>

\* _ncei_scrape line 264: if self._allow_shipname_surveyname(nceisite)
EnterFrame ==
    /\ pc = "crawl" /\ Top.at = "enter"
    /\ LET r == _allow_shipname_surveyname(Top.site, ledger, self,
                                           region_ship_name, region_survey_name)
       IN  /\ ledger' = r.ledger
           /\ self' = r.self
           /\ ev' = [act |-> "EnterFrame", url |-> Top.site, log |-> r.log]
           /\ hist' = IF r.why = "not_boundary" THEN hist
                      ELSE [hist EXCEPT !.reached =
                                Append(@, <<r.self.ship_name, r.self.survey_name>>)]
           /\ IF r.ret
              THEN /\ stack' = WithTop([Top EXCEPT !.at = "connect"])
                   /\ conn' = ConnectStart(Top.site, server_reconnect_retries)
                   /\ pc' = pc
              ELSE /\ Return
                   /\ conn' = conn
    /\ UNCHANGED <<schema, regions, query, download, region, region_ship_name, region_survey_name, kluster_enabled,
                   kluster_configured, server_reconnect_retries, fs, faults, crawl_no>>

\* _ncei_scrape lines 265-266: one pass of the loop of connect_to_server, and on a
\* response the parse of its anchors; resp.text of a None response raises
Connect ==
    /\ pc = "crawl" /\ Top.at = "connect"
    /\ \E got \in {Response(status) : status \in CrawlStatusCodes} \cup {TransportError} :
         LET c == connect_to_server(conn, got)
             fault == c.gets > conn.gets /\ c.out # "resp"
         IN  /\ c.out = "resp" \/ c.out = "none" \/ faults < MaxFaults
             /\ conn' = c
             /\ faults' = IF fault THEN faults + 1 ELSE faults
             /\ hist' = IF c.gets > conn.gets
                        THEN [hist EXCEPT !.fetched = @ \cup {Top.site}]
                        ELSE hist
             /\ ev' = [act |-> "Connect", url |-> Top.site,
                       log |-> << c.out, IF c.out \in {"none", "raised"}
                                         THEN "raise" ELSE "go" >>]
             /\ IF c.out = "resp"
                THEN /\ stack' = WithTop([Top EXCEPT !.at = "loop",
                                                     !.anchors = Listing(Top.site)])
                     /\ pc' = pc
                ELSE IF c.out = "running"
                THEN UNCHANGED <<stack, pc>>
                ELSE Raise
    /\ UNCHANGED <<schema, regions, query, download, ledger, self, region, region_ship_name, region_survey_name,
                   kluster_enabled, kluster_configured, server_reconnect_retries, fs,
                   crawl_no>>

\* the loop body without the test of exclude_vessels at ship level
AnchorBody_no_exclude(f, a, files, s, dl) ==
    LET nceifile == f.site \o LStripSlash(a.href)
        skip == _skip_to_gridding(nceifile, files, s)
        got == _download_file_url(nceifile, files, s, dl)
        same == [kind |-> "continue", files |-> files, self |-> s, network |-> FALSE,
                 failed |-> FALSE, url |-> nceifile]
    IN  IF ~a.attrs THEN same
        ELSE IF ~EndsWithSlash(a.href)
        THEN IF skip.raised THEN [same EXCEPT !.kind = "except"]
             ELSE IF skip.ret THEN [same EXCEPT !.kind = "break", !.self = skip.self]
             ELSE IF got.raised THEN [same EXCEPT !.kind = "except"]
             ELSE [kind |-> "file", files |-> got.files, self |-> got.self,
                   network |-> got.network, failed |-> got.network /\ ~got.success,
                   url |-> nceifile]
        ELSE IF a.href = a.text
        THEN [same EXCEPT !.kind = "recurse", !.url = f.site \o a.href]
        ELSE same

\* the body of the for loop of _ncei_scrape for one anchor (lines 268-289)
AnchorBody(f, a, files, s, dl) ==
    LET nceifile == f.site \o LStripSlash(a.href)
        skip == _skip_to_gridding(nceifile, files, s)
        got == _download_file_url(nceifile, files, s, dl)
        same == [kind |-> "continue", files |-> files, self |-> s, network |-> FALSE,
                 failed |-> FALSE, url |-> nceifile]
    IN  IF ~a.attrs THEN same
        ELSE IF ~EndsWithSlash(a.href)
        THEN IF skip.raised THEN [same EXCEPT !.kind = "except"]
             ELSE IF skip.ret THEN [same EXCEPT !.kind = "break", !.self = skip.self]
             ELSE IF got.raised THEN [same EXCEPT !.kind = "except"]
             ELSE [kind |-> "file", files |-> got.files, self |-> got.self,
                   network |-> got.network, failed |-> got.network /\ ~got.success,
                   url |-> nceifile]
        ELSE IF a.href = a.text
        THEN IF f.shiplevel /\ RStripSlash(a.text) \in exclude_vessels
             THEN [same EXCEPT !.kind = "excluded"]
             ELSE [same EXCEPT !.kind = "recurse", !.url = f.site \o a.href]
        ELSE same

\* one pass of the for loop of _ncei_scrape
Anchor ==
    /\ pc = "crawl" /\ Top.at = "loop" /\ Top.anchors # << >>
    /\ \E dl \in DownloadOutcomes :
         LET r == AnchorBody(Top, Head(Top.anchors), fs, self, dl)
             rest == [Top EXCEPT !.anchors = IF r.kind = "break" THEN << >> ELSE Tail(@)]
         IN  /\ dl = "ok" \/ (r.failed /\ faults < MaxFaults)
             /\ fs' = r.files
             /\ self' = r.self
             /\ faults' = IF r.failed THEN faults + 1 ELSE faults
             /\ hist' = IF r.network THEN [hist EXCEPT !.downloads = @ \cup {r.url}]
                        ELSE hist
             /\ stack' = IF r.kind = "recurse"
                         THEN Append(WithTop(rest), Frame(r.url, FALSE))
                         ELSE WithTop(rest)
             /\ ev' = [act |-> "Anchor", url |-> r.url, log |-> << r.kind >>]
    /\ UNCHANGED <<schema, regions, query, download, ledger, region, region_ship_name, region_survey_name, kluster_enabled,
                   kluster_configured, server_reconnect_retries, pc, conn, crawl_no>>

\* _ncei_scrape line 290: every anchor was visited; self.kluster_process(), return
FrameEnd ==
    /\ pc = "crawl" /\ Top.at = "loop" /\ Top.anchors = << >>
    /\ \E k \in KlusterOutcomes :
         LET r == kluster_process(self, fs, kluster_enabled, kluster_configured, k)
             fault == r.called /\ kluster_configured /\ k # "TT"
             who == <<Lower(self.ship_name), Lower(self.survey_name)>>
         IN  /\ k = "TT" \/ (fault /\ faults < MaxFaults)
             /\ fs' = r.files
             /\ self' = r.self
             /\ faults' = IF fault THEN faults + 1 ELSE faults
             /\ hist' = IF r.called
                        THEN [hist EXCEPT
                                 !.handoffs = Append(@, self.raw_data_path),
                                 !.exported = IF r.gridded THEN @ \cup {who} ELSE @,
                                 !.failed = IF r.raised \/ ~r.processed \/ ~r.gridded
                                            THEN @ \cup {who} ELSE @]
                        ELSE hist
             /\ ev' = [act |-> "FrameEnd", url |-> Top.site,
                       log |-> << IF ~r.called THEN "no_handoff"
                                  ELSE IF r.raised THEN "handoff_raised"
                                  ELSE "handoff",
                                  [processed |-> r.processed, gridded |-> r.gridded,
                                   given |-> r.given] >>]
             /\ IF r.raised THEN Raise ELSE Return
    /\ UNCHANGED <<schema, regions, query, download, ledger, region, region_ship_name, region_survey_name, kluster_enabled,
                   kluster_configured, server_reconnect_retries, conn, crawl_no>>

\* the region restriction and the (ship, survey) lists survey_names_in_region
\* resolved for it: no region; a region with no survey; two regions with surveys
RegionConfigs ==
    { [region |-> FALSE, ships |-> << >>, surveys |-> << >>],
      [region |-> TRUE, ships |-> << >>, surveys |-> << >>],
      [region |-> TRUE, ships |-> << <<"a","l">>, <<"a","l">>, <<"b"," ","c">> >>,
                        surveys |-> << <<"s","1">>, <<"s","2">>, <<"s","3">> >>],
      [region |-> TRUE, ships |-> << <<"a","l">> >>, surveys |-> << <<"s","2">> >>] }

\* the state after construction, before the first ncei_scrape
Init ==
    /\ ledger = << >>
    /\ self = BaseBackendInit
    /\ \E rc \in RegionConfigs :
         /\ region = rc.region
         /\ region_ship_name = rc.ships
         /\ region_survey_name = rc.surveys
    /\ kluster_enabled \in BOOLEAN
    /\ kluster_configured \in BOOLEAN
    /\ kluster_configured => kluster_enabled
    /\ server_reconnect_retries = DefaultServerReconnectRetries
    /\ fs = {output_folder}
    /\ stack = << >>
    /\ pc = "idle"
    /\ ev = [act |-> "Init", url |-> << >>, log |-> << >>]
    /\ conn = ConnIdle
    /\ faults = 0
    /\ crawl_no = 0
    /\ download = DownloadIdle
    /\ regions = RegionsNone
    /\ schema = {SurveysTable}
    /\ query = QueryIdle
    /\ hist = HistInit(<< >>)

Next == StartCrawl \/ EnterFrame \/ Connect \/ Anchor \/ FrameEnd

Spec == Init /\ [][Next]_vars

-----------------------------------------------------------------------------
(* The crawl in a harsher environment: the ledger's storage can fail, the   *)
(* connection layer can be configured to give up, and the output folder can *)
(* hold a processed folder whose raw folder is gone                         *)

\* _allow_shipname_surveyname at a (ship, survey) boundary when a statement on the
\* sqlite connection raises: in _add_survey (lines 90-96 of the backend, before the
\* attributes are reset) or in _check_for_grid (line 164). Line 264 is outside the
\* try of the loop, so the exception leaves this _ncei_scrape call and is caught by
\* the except clause of the call that recursed into it.
StorageError ==
    /\ pc = "crawl" /\ Top.at = "enter"
    /\ IsSurveyBoundary(Split(Top.site))
    /\ faults < MaxFaults
    /\ \E where \in {"_add_survey", "_check_for_grid"} :
         LET r == _allow_shipname_surveyname(Top.site, ledger, self,
                                             region_ship_name, region_survey_name)
             early == where = "_add_survey"
         IN  /\ early => (self.ship_name # << >> /\ self.survey_name # << >>)
             /\ ~early => r.why \in {"already_processed", "search"}
             /\ ledger' = IF early THEN ledger ELSE r.ledger
             /\ self' = IF early THEN self ELSE r.self
             /\ hist' = IF early THEN hist
                        ELSE [hist EXCEPT !.reached =
                                  Append(@, <<r.self.ship_name, r.self.survey_name>>)]
             /\ ev' = [act |-> "StorageError", url |-> Top.site, log |-> << where >>]
    /\ Raise
    /\ faults' = faults + 1
    /\ UNCHANGED <<schema, regions, query, download, region, region_ship_name, region_survey_name, kluster_enabled,
                   kluster_configured, server_reconnect_retries, fs, conn, crawl_no>>

\* server_reconnect_retries as shipped, and 0: the one setting with which
\* connect_to_server reaches its `return None`
EnvRetryConfigs == {0, DefaultServerReconnectRetries}

\* the output folder at the start: empty, or holding the processed folder of al/s2
\* of an earlier run whose raw folder was removed
EnvFolders ==
    { {output_folder},
      {output_folder, Join(output_folder, ShipAl),
       SurveyFolder(ShipAl, SurveyS2) \o ProcessedSuffix} }

InitEnv ==
    /\ ledger = << >>
    /\ self = BaseBackendInit
    /\ \E rc \in RegionConfigs :
         /\ Len(rc.surveys) = 1
         /\ region = rc.region
         /\ region_ship_name = rc.ships
         /\ region_survey_name = rc.surveys
    /\ kluster_enabled \in BOOLEAN
    /\ kluster_configured \in BOOLEAN
    /\ kluster_configured => kluster_enabled
    /\ server_reconnect_retries \in EnvRetryConfigs
    /\ fs \in EnvFolders
    /\ stack = << >>
    /\ pc = "idle"
    /\ ev = [act |-> "Init", url |-> << >>, log |-> << >>]
    /\ conn = ConnIdle
    /\ faults = 0
    /\ crawl_no = 0
    /\ download = DownloadIdle
    /\ regions = RegionsNone
    /\ schema = {SurveysTable}
    /\ query = QueryIdle
    /\ hist = HistInit(<< >>)

NextEnv == StartCrawl \/ EnterFrame \/ Connect \/ Anchor \/ FrameEnd \/ StorageError

SpecEnv == InitEnv /\ [][NextEnv]_vars

-----------------------------------------------------------------------------
(* The connection layer on its own: one connect_to_server call             *)

\* the most GET attempts followed in one call
MaxGets == 12

\* the configured maxima tried: none, 1, 3 and the default
RetryConfigs == {0, 1, 3, DefaultServerReconnectRetries}

\* status codes around the 2xx range, and the server errors the archive gives
StatusCodes == {199, 200, 299, 300, 404, 500, 504}

Responses == {Response(status) : status \in StatusCodes} \cup {TransportError}

\* the query URL of the remote catalog, abbreviated
QueryUrl == <<"q","u","e","r","y","?">>

ConnInit ==
    /\ ledger = << >>
    /\ self = BaseBackendInit
    /\ region = FALSE
    /\ region_ship_name = << >>
    /\ region_survey_name = << >>
    /\ kluster_enabled = FALSE
    /\ kluster_configured = FALSE
    /\ server_reconnect_retries \in RetryConfigs
    /\ fs = {output_folder}
    /\ stack = << >>
    /\ pc \in {"scrape_connect", "query_connect"}
    /\ ev = [act |-> "Init", url |-> << >>, log |-> << >>]
    /\ conn = ConnectStart(IF pc = "scrape_connect" THEN ncei_url ELSE QueryUrl,
                           server_reconnect_retries)
    /\ faults = 0
    /\ crawl_no = 0
    /\ download = DownloadIdle
    /\ regions = RegionsNone
    /\ schema = {SurveysTable}
    /\ query = QueryIdle
    /\ hist = HistInit(<< >>)

\* NceiScrape.connect_to_server(ncei_url), one pass
ScrapeGet ==
    /\ pc = "scrape_connect" /\ conn.out = "running" /\ conn.gets < MaxGets
    /\ \E got \in Responses : conn' = connect_to_server(conn, got)
    /\ ev' = [act |-> "ScrapeGet", url |-> conn.url, log |-> << conn'.out >>]
    /\ UNCHANGED <<schema, regions, query, download, ledger, self, region, region_ship_name, region_survey_name,
                   kluster_enabled, kluster_configured, server_reconnect_retries, fs,
                   stack, pc, faults, crawl_no, hist>>

\* NceiQuery.connect_to_server(ncei_url), one pass
QueryGet ==
    /\ pc = "query_connect" /\ conn.out = "running" /\ conn.gets < MaxGets
    /\ \E got \in Responses : conn' = query_connect_to_server(conn, got)
    /\ ev' = [act |-> "QueryGet", url |-> conn.url, log |-> << conn'.out >>]
    /\ UNCHANGED <<schema, regions, query, download, ledger, self, region, region_ship_name, region_survey_name,
                   kluster_enabled, kluster_configured, server_reconnect_retries, fs,
                   stack, pc, faults, crawl_no, hist>>

ConnNext == ScrapeGet \/ QueryGet

SpecConn == ConnInit /\ [][ConnNext]_vars

-----------------------------------------------------------------------------
(* One download_multibeam_file call                                        *)

\* the most attempts followed in one call
MaxAttempts == 22

\* the configured maxima tried: none, 1, 3 and the default
DownloadRetryConfigs == {0, 1, 3, DefaultDownloadRetries}

\* the destination of al/s2/h.all.mb59.gz
DownloadPath == Join(SurveyFolder(ShipAl, SurveyS2), <<"h",".","a","l","l">>)

\* _download_file_url has built the output path and made its folder; the
\* destination may be there from an earlier run
DownloadInit ==
    /\ ledger = << >>
    /\ self = BaseBackendInit
    /\ region = FALSE
    /\ region_ship_name = << >>
    /\ region_survey_name = << >>
    /\ kluster_enabled = FALSE
    /\ kluster_configured = FALSE
    /\ server_reconnect_retries = DefaultServerReconnectRetries
    /\ \E there \in BOOLEAN :
         fs = MakeSurveyFolder({output_folder}, ShipAl, SurveyS2)
                 \cup (IF there THEN {DownloadPath} ELSE {})
    /\ stack = << >>
    /\ pc = "download"
    /\ ev = [act |-> "Init", url |-> << >>, log |-> << >>]
    /\ conn = ConnIdle
    /\ faults = 0
    /\ crawl_no = 0
    /\ hist = HistInit(<< >>)
    /\ \E cfg \in DownloadRetryConfigs : download = DownloadStart(DownloadPath, cfg)
    /\ regions = RegionsNone
    /\ schema = {SurveysTable}
    /\ query = QueryIdle

\* NceiScrape.download_multibeam_file(ncei_url, output_path), one step
DownloadPass ==
    /\ pc = "download" /\ download.out = "running" /\ download.attempts < MaxAttempts
    /\ \E got \in AttemptOutcomes :
         LET r == download_multibeam_file_pass(download, fs, got)
         IN  /\ download' = r.d
             /\ fs' = r.files
             /\ ev' = [act |-> "DownloadPass", url |-> << >>,
                       log |-> << IF r.d.attempts > download.attempts THEN got
                                  ELSE "no_attempt", r.d.out >>]
    /\ UNCHANGED <<schema, regions, query, ledger, self, region, region_ship_name, region_survey_name,
                   kluster_enabled, kluster_configured, server_reconnect_retries,
                   stack, pc, conn, faults, crawl_no, hist>>

DownloadNext == DownloadPass

SpecDownload == DownloadInit /\ [][DownloadNext]_vars

-----------------------------------------------------------------------------
(* One NceiQuery.query call                                                *)

\* the most envelopes (bounding boxes of the region) one query goes through
MaxEnvelopes == 2

\* the numbers of object ids the identifiers-only query answers with
IdCounts == {0, 1, 500, 501, 1000, 1001}

\* the object ids of an answer with n of them
Ids(n) == [i \in 1..n |-> i]

\* the answers to the identifiers-only query: a list of object ids, 'objectIds'
\* null, an error answer, and no connection (connect_to_server returned None)
IdsAnswers ==
    { [kind |-> "ids", objectIds |-> Ids(n)] : n \in IdCounts }
        \cup { [kind |-> k, objectIds |-> << >>] : k \in {"null", "error", "none"} }

\* how a follow-up query goes
FollowUpOutcomes == {"features", "error", "none"}

\* what the running query has done: the object ids found for each envelope gone
\* through, the follow-up queries issued, the envelopes an error was logged for,
\* and whether every follow-up so far answered one feature per object id
QueryHistInit ==
    [ ids |-> << >>, requests |-> << >>, errors |-> << >>, complete |-> TRUE ]

\* query was called and has built its envelopes
QueryInit ==
    /\ ledger = << >>
    /\ self = BaseBackendInit
    /\ region = TRUE
    /\ region_ship_name = << >>
    /\ region_survey_name = << >>
    /\ kluster_enabled = FALSE
    /\ kluster_configured = FALSE
    /\ server_reconnect_retries = DefaultServerReconnectRetries
    /\ fs = {output_folder}
    /\ stack = << >>
    /\ pc = "query"
    /\ ev = [act |-> "Init", url |-> << >>, log |-> << >>]
    /\ conn = ConnIdle
    /\ faults = 0
    /\ crawl_no = 0
    /\ hist = QueryHistInit
    /\ download = DownloadIdle
    /\ regions = RegionsNone
    /\ schema = {SurveysTable}
    /\ \E n \in 1..MaxEnvelopes : query = QueryStart([i \in 1..n |-> i])

\* query lines 317-327, 342-343: the next envelope
QueryEnvelope ==
    /\ pc = "query" /\ query.at = "envelope"
    /\ \E got \in IdsAnswers :
         LET r == query_envelope(query, got)
         IN  /\ query' = r.q
             /\ hist' = [hist EXCEPT
                            !.ids = Append(@, r.q.object_ids),
                            !.errors = IF r.error THEN Append(@, query.cnt) ELSE @]
             /\ ev' = [act |-> "QueryEnvelope", url |-> << >>,
                       log |-> << got.kind, query.cnt >>]
    /\ UNCHANGED <<schema, regions, download, ledger, self, region, region_ship_name, region_survey_name,
                   kluster_enabled, kluster_configured, server_reconnect_retries, fs,
                   stack, pc, conn, faults, crawl_no>>

\* query lines 328-341: the next chunk of the envelope
QueryChunk ==
    /\ pc = "query" /\ query.at = "chunk"
    /\ \E got \in FollowUpOutcomes :
         LET r == query_chunk(query, got)
         IN  /\ got = "features" \/ faults < MaxFaults
             /\ query' = r.q
             /\ faults' = IF got = "features" THEN faults ELSE faults + 1
             /\ hist' = [hist EXCEPT
                            !.requests = Append(@, [cnt |-> query.cnt,
                                                    chunk_ids |-> r.chunk_ids]),
                            !.complete = @ /\ got = "features"]
             /\ ev' = [act |-> "QueryChunk", url |-> << >>, log |-> << got, query.cnt >>]
    /\ UNCHANGED <<schema, regions, download, ledger, self, region, region_ship_name, region_survey_name,
                   kluster_enabled, kluster_configured, server_reconnect_retries, fs,
                   stack, pc, conn, crawl_no>>

QueryNext == QueryEnvelope \/ QueryChunk

SpecQuery == QueryInit /\ [][QueryNext]_vars

-----------------------------------------------------------------------------
(* The names of a region: _check_regions after the query has returned      *)

\* the most features in the collection the query returned
MaxFeatures == 3

\* the platforms and survey ids the server writes, in the cases it writes them
Platforms == { <<"A","l">>, <<"B"," ","C">> }

SurveyIds == { <<"S","1">>, <<"s","1">>, <<"S","2">> }

FeatureLists ==
    UNION { [1..n -> { Feature(p, v) : p \in Platforms, v \in SurveyIds }]
            : n \in 0..MaxFeatures }

\* the query of _check_regions has returned its feature collection
NamesInit ==
    /\ ledger = << >>
    /\ self = BaseBackendInit
    /\ region = TRUE
    /\ region_ship_name = << >>
    /\ region_survey_name = << >>
    /\ kluster_enabled = FALSE
    /\ kluster_configured = FALSE
    /\ server_reconnect_retries = DefaultServerReconnectRetries
    /\ fs = {output_folder}
    /\ stack = << >>
    /\ pc = "names"
    /\ ev = [act |-> "Init", url |-> << >>, log |-> << >>]
    /\ conn = ConnIdle
    /\ faults = 0
    /\ crawl_no = 0
    /\ hist = QueryHistInit
    /\ download = DownloadIdle
    /\ regions = RegionsNone
    /\ schema = {SurveysTable}
    /\ \E data \in {EmptyDict, ErrorDict} \cup { FeatureDict(f) : f \in FeatureLists } :
         query = [QueryIdle EXCEPT !.at = "returned", !.feature_data = data]

\* NceiScrape._check_regions lines 97-99
CheckRegions ==
    /\ pc = "names"
    /\ LET r == survey_names_in_region(query.feature_data)
       IN  /\ region_ship_name' = r.unique_ship_name
           /\ region_survey_name' = r.unique_survey_name
           /\ pc' = IF r.raised THEN "raised" ELSE "idle"
           /\ ev' = [act |-> "CheckRegions", url |-> << >>, log |-> << r.raised >>]
    /\ UNCHANGED <<schema, regions, query, download, ledger, self, region, kluster_enabled,
                   kluster_configured, server_reconnect_retries, fs, stack, conn,
                   faults, crawl_no, hist>>

NamesNext == CheckRegions

SpecNames == NamesInit /\ [][NamesNext]_vars

-----------------------------------------------------------------------------
(* A Regions object: its load, then lookups by name and by position        *)

\* the names asked for: the name of a region file, with and without extension, a
\* full path, and a name no file has
RegionNames ==
    { RegionA, RegionB, RegionC, RegionC \o GpkgExt, RegionPath(RegionB), <<"z">> }

Lons == 0..7

Lats == 0..2

\* Regions(...) was called and has listed the geopackages
RegionsInit ==
    /\ ledger = << >>
    /\ self = BaseBackendInit
    /\ region = TRUE
    /\ region_ship_name = << >>
    /\ region_survey_name = << >>
    /\ kluster_enabled = FALSE
    /\ kluster_configured = FALSE
    /\ server_reconnect_retries = DefaultServerReconnectRetries
    /\ fs = {output_folder}
    /\ stack = << >>
    /\ pc = "regions"
    /\ ev = [act |-> "Init", url |-> << >>, log |-> << >>]
    /\ conn = ConnIdle
    /\ faults = 0
    /\ crawl_no = 0
    /\ hist = << >>
    /\ download = DownloadIdle
    /\ query = QueryIdle
    /\ regions = RegionsStart
    /\ schema = {SurveysTable}

\* _build_region_lists lines 54-62 for the next geopackage; hist keeps which
\* builds went through
BuildRegion ==
    /\ pc = "regions" /\ regions.built < Len(regions.region_paths)
    /\ \E got \in [bounds : BOOLEAN, wkt : BOOLEAN] :
         /\ regions' = _build_region_lists_pass(regions, got)
         /\ hist' = Append(hist, got)
         /\ ev' = [act |-> "BuildRegion", url |-> regions.region_paths[regions.built + 1],
                   log |-> << got >>]
    /\ UNCHANGED <<schema, query, download, ledger, self, region, region_ship_name,
                   region_survey_name, kluster_enabled, kluster_configured,
                   server_reconnect_retries, fs, stack, pc, conn, faults, crawl_no>>

\* Regions.return_region_by_name(region_name, return_bounds, return_wkt)
ByName ==
    /\ pc = "regions" /\ regions.built = Len(regions.region_paths)
    /\ \E region_name \in RegionNames, what \in {"bounds", "wkt", "path"} :
         ev' = [act |-> "ByName", url |-> region_name,
                log |-> << what, return_region_by_name(regions, region_name,
                                                       what = "bounds", what = "wkt") >>]
    /\ UNCHANGED <<schema, regions, query, download, ledger, self, region, region_ship_name,
                   region_survey_name, kluster_enabled, kluster_configured,
                   server_reconnect_retries, fs, stack, pc, conn, faults, crawl_no, hist>>

\* Regions.return_regions_by_position(lon, lat)
ByPosition ==
    /\ pc = "regions" /\ regions.built = Len(regions.region_paths)
    /\ \E lon \in Lons, lat \in Lats :
         ev' = [act |-> "ByPosition", url |-> << lon, lat >>,
                log |-> << return_regions_by_position(regions, lon, lat) >>]
    /\ UNCHANGED <<schema, regions, query, download, ledger, self, region, region_ship_name,
                   region_survey_name, kluster_enabled, kluster_configured,
                   server_reconnect_retries, fs, stack, pc, conn, faults, crawl_no, hist>>

RegionsNext == BuildRegion \/ ByName \/ ByPosition

SpecRegions == RegionsInit /\ [][RegionsNext]_vars

-----------------------------------------------------------------------------
(* The ledger on its own: _add_survey after any survey the crawl can hold  *)

\* the most rows followed in the table
MaxRows == 3

LedgerShips == { << >>, <<"A","l">>, <<"a","l">> }

LedgerSurveys == { << >>, <<"S","1">>, <<"s","1">>, <<"s","2">> }

\* the counters and paths a survey can end with: nothing found; downloaded and
\* gridded; download failed; downloaded and processing failed
SurveyOutcomes ==
    { [ok |-> 0, err |-> 0, ign |-> 0, raw |-> FALSE, processed |-> FALSE, grid |-> FALSE],
      [ok |-> 1, err |-> 0, ign |-> 1, raw |-> TRUE, processed |-> TRUE, grid |-> TRUE],
      [ok |-> 0, err |-> 1, ign |-> 0, raw |-> FALSE, processed |-> FALSE, grid |-> FALSE],
      [ok |-> 1, err |-> 0, ign |-> 0, raw |-> TRUE, processed |-> FALSE, grid |-> FALSE] }

\* the attributes as the crawl leaves them for survey (ship, survey) with outcome o
Populated(ship, survey, o) ==
    LET raw == SurveyFolder(ship, survey)
    IN  [ ship_name |-> ship, survey_name |-> survey, survey_url |-> << >>,
          downloaded_success_count |-> o.ok, downloaded_error_count |-> o.err,
          ignored_count |-> o.ign,
          raw_data_path |-> IF o.raw THEN raw ELSE << >>,
          processed_data_path |-> IF o.processed THEN raw \o ProcessedSuffix ELSE << >>,
          grid_path |-> IF o.grid THEN Join(raw \o ProcessedSuffix, GridFileName)
                        ELSE << >> ]

LedgerInit ==
    /\ ledger = << >>
    /\ self = BaseBackendInit
    /\ region = FALSE
    /\ region_ship_name = << >>
    /\ region_survey_name = << >>
    /\ kluster_enabled = FALSE
    /\ kluster_configured = FALSE
    /\ server_reconnect_retries = DefaultServerReconnectRetries
    /\ fs = {output_folder}
    /\ stack = << >>
    /\ pc = "ledger"
    /\ ev = [act |-> "Init", url |-> << >>, log |-> << >>]
    /\ conn = ConnIdle
    /\ faults = 0
    /\ crawl_no = 0
    /\ download = DownloadIdle
    /\ regions = RegionsNone
    /\ schema = {SurveysTable}
    /\ query = QueryIdle
    /\ hist = HistInit(<< >>)

\* the crawl fills the attributes for a survey
LedgerPopulate ==
    /\ pc = "ledger" /\ self = BaseBackendInit
    /\ \E ship \in LedgerShips, survey \in LedgerSurveys, o \in SurveyOutcomes :
         self' = Populated(ship, survey, o)
    /\ ev' = [act |-> "Populate", url |-> << >>, log |-> << >>]
    /\ UNCHANGED <<schema, regions, query, download, ledger, region, region_ship_name, region_survey_name, kluster_enabled,
                   kluster_configured, server_reconnect_retries, fs, stack, pc, conn,
                   faults, crawl_no, hist>>

\* SqlBackend._add_survey()
LedgerAddSurvey ==
    /\ pc = "ledger" /\ Len(ledger) < MaxRows
    /\ ledger' = AddSurveyLedger(ledger, self)
    /\ self' = AddSurveyReset(self)
    /\ ev' = [act |-> "_add_survey", url |-> << >>,
              log |-> << [op |-> "add_survey", ship |-> self.ship_name,
                          survey |-> self.survey_name, inserted |-> ledger' # ledger,
                          row |-> InsertValues(self)] >>]
    /\ UNCHANGED <<schema, regions, query, download, region, region_ship_name, region_survey_name, kluster_enabled,
                   kluster_configured, server_reconnect_retries, fs, stack, pc, conn,
                   faults, crawl_no, hist>>

\* the names the ledger is asked about: every spelling of the stored ships and
\* surveys, and names it never holds
CheckShips == { <<"A","l">>, <<"a","l">>, <<"A","L">>, <<"a","l","a">> }

CheckSurveys == { <<"S","1">>, <<"s","1">>, <<"S","2">>, <<"s","3">> }

\* SqlBackend._check_for_survey(shipname, surveyname), between two surveys
LedgerCheckSurvey ==
    /\ pc = "ledger" /\ self = BaseBackendInit
    /\ \E shipname \in CheckShips, surveyname \in CheckSurveys :
         ev' = [act |-> "_check_for_survey", url |-> << >>,
                log |-> << [op |-> "check_for_survey", ship |-> shipname,
                            survey |-> surveyname,
                            ret |-> _check_for_survey(ledger, shipname, surveyname)] >>]
    /\ UNCHANGED <<schema, regions, query, download, ledger, self, region, region_ship_name,
                   region_survey_name, kluster_enabled, kluster_configured,
                   server_reconnect_retries, fs, stack, pc, conn, faults, crawl_no, hist>>

\* SqlBackend._check_for_grid(shipname, surveyname), between two surveys
LedgerCheckGrid ==
    /\ pc = "ledger" /\ self = BaseBackendInit
    /\ \E shipname \in CheckShips, surveyname \in CheckSurveys :
         ev' = [act |-> "_check_for_grid", url |-> << >>,
                log |-> << [op |-> "check_for_grid", ship |-> shipname,
                            survey |-> surveyname,
                            ret |-> _check_for_grid(ledger, shipname, surveyname)] >>]
    /\ UNCHANGED <<schema, regions, query, download, ledger, self, region, region_ship_name,
                   region_survey_name, kluster_enabled, kluster_configured,
                   server_reconnect_retries, fs, stack, pc, conn, faults, crawl_no, hist>>

\* SqlBackend._remove_survey(shipname, surveyname), between two surveys
LedgerRemoveSurvey ==
    /\ pc = "ledger" /\ self = BaseBackendInit
    /\ \E shipname \in CheckShips, surveyname \in CheckSurveys :
         LET r == _remove_survey(ledger, shipname, surveyname)
         IN  /\ ledger' = r.ledger
             /\ pc' = IF r.raised THEN "raised" ELSE "ledger"
             /\ ev' = [act |-> "_remove_survey", url |-> << >>,
                       log |-> << [op |-> "remove_survey", ship |-> shipname,
                                   survey |-> surveyname, before |-> ledger] >>]
    /\ UNCHANGED <<schema, regions, query, download, self, region, region_ship_name,
                   region_survey_name, kluster_enabled, kluster_configured,
                   server_reconnect_retries, fs, stack, conn, faults, crawl_no, hist>>

LedgerNext ==
    \/ LedgerPopulate \/ LedgerAddSurvey \/ LedgerCheckSurvey \/ LedgerCheckGrid
    \/ LedgerRemoveSurvey

SpecLedger == LedgerInit /\ [][LedgerNext]_vars

-----------------------------------------------------------------------------
(* Opening the ledger: _configure_backend on any output folder             *)

\* the most rows the sqlite file holds from earlier runs
MaxStored == 2

\* the rows earlier runs can have committed
StoredRows ==
    { InsertValues(Populated(ship, survey, o)) :
        ship \in {ShipAl}, survey \in {SurveyS1, SurveyS2}, o \in SurveyOutcomes }

\* the tables earlier runs can have left: one row for each pair at most
StoredLedgers ==
    { led \in UNION { [1..n -> StoredRows] : n \in 0..MaxStored } :
        \A i, j \in 1..Len(led) : i # j => led[i].survey # led[j].survey }

\* what the output folder holds before NceiScrape is constructed: no sqlite file; a
\* sqlite file with the surveys table and the rows of earlier runs; a sqlite file
\* with no table (a run that ended between sqlite3.connect and the commit of
\* CREATE TABLE, or an empty file of that name)
BackendInit ==
    /\ self = BaseBackendInit
    /\ region = FALSE
    /\ region_ship_name = << >>
    /\ region_survey_name = << >>
    /\ kluster_enabled = FALSE
    /\ kluster_configured = FALSE
    /\ server_reconnect_retries = DefaultServerReconnectRetries
    /\ stack = << >>
    /\ pc = "configure"
    /\ ev = [act |-> "Init", url |-> << >>, log |-> << >>]
    /\ conn = ConnIdle
    /\ faults = 0
    /\ crawl_no = 0
    /\ download = DownloadIdle
    /\ query = QueryIdle
    /\ regions = RegionsNone
    /\ \E prior \in {"absent", "table", "no_table"} :
         /\ fs = IF prior = "absent" THEN {output_folder}
                 ELSE {output_folder, database_file}
         /\ schema = IF prior = "table" THEN {SurveysTable} ELSE {}
         /\ IF prior = "table" THEN ledger \in StoredLedgers ELSE ledger = << >>
    /\ hist = HistInit(ledger)

\* NceiScrape.__init__ line 49: self._configure_backend(), for a new object on the
\* same output folder
ConfigureBackend ==
    /\ pc \in {"configure", "configured", "raised"}
    /\ crawl_no < MaxCrawls
    /\ LET r == _configure_backend(fs, schema)
       IN  /\ fs' = r.files
           /\ schema' = r.tables
           /\ ev' = [act |-> "ConfigureBackend", url |-> database_file,
                     log |-> << database_file \in fs, r.tables # schema >>]
    /\ pc' = "configured"
    /\ crawl_no' = crawl_no + 1
    /\ self' = BaseBackendInit
    /\ UNCHANGED <<regions, query, download, ledger, region, region_ship_name,
                   region_survey_name, kluster_enabled, kluster_configured,
                   server_reconnect_retries, stack, conn, faults, hist>>

\* the first statement on the table, the SELECT of _check_for_survey: it raises
\* sqlite3.OperationalError (no such table) when the table is not there
BackendSelect ==
    /\ pc = "configured"
    /\ \E shipname \in CheckShips, surveyname \in CheckSurveys :
         IF SurveysTable \in schema
         THEN /\ ev' = [act |-> "_check_for_survey", url |-> << >>,
                        log |-> << [op |-> "check_for_survey", ship |-> shipname,
                                    survey |-> surveyname,
                                    ret |-> _check_for_survey(ledger, shipname,
                                                              surveyname)] >>]
              /\ pc' = pc
         ELSE /\ ev' = [act |-> "_check_for_survey", url |-> << >>,
                        log |-> << [op |-> "OperationalError", ship |-> shipname,
                                    survey |-> surveyname, ret |-> FALSE] >>]
              /\ pc' = "raised"
    /\ UNCHANGED <<schema, regions, query, download, ledger, self, region,
                   region_ship_name, region_survey_name, kluster_enabled,
                   kluster_configured, server_reconnect_retries, fs, stack, conn,
                   faults, crawl_no, hist>>

BackendNext == ConfigureBackend \/ BackendSelect

SpecBackend == BackendInit /\ [][BackendNext]_vars

-----------------------------------------------------------------------------
(* Properties                                                              *)

\* the ledger key of a (ship, survey) pair
Key(ship, survey) == <<Lower(ship), Lower(survey)>>

RowKey(row) == <<row.ship_name, row.survey>>

\* the (ship, survey) key of a survey-level or deeper URL
UrlKey(url) == Key(Seg(Split(url), 6), Seg(Split(url), 7))

\* led holds a row for the key k with a non-empty grid_path
GridRow(led, k) == \E i \in 1..Len(led) : RowKey(led[i]) = k /\ led[i].grid_path # << >>

\* led holds a row for the key k
HasRow(led, k) == \E i \in 1..Len(led) : RowKey(led[i]) = k

\* the URL lies in the subtree of a survey that had a completed grid when the crawl began
UrlCompleted(url) ==
    /\ \E i \in 1..Len(hist.ledger0) : hist.ledger0[i].grid_path # << >>
    /\ LET u == Split(url)
       IN  Len(u) >= 9 /\ GridRow(hist.ledger0, Key(Seg(u, 6), Seg(u, 7)))

\* the raw folder output_folder/ship/survey of a survey completed when the crawl began
PathCompleted(path) ==
    \E i \in 1..Len(hist.ledger0) :
        /\ hist.ledger0[i].grid_path # << >>
        /\ LET q == Split(path)
           IN  Len(q) = 3 /\ RowKey(hist.ledger0[i]) = Key(q[2], q[3])

\* the last step was _allow_shipname_surveyname at a (ship, survey) boundary
AtBoundary == ev.act = "EnterFrame" /\ Len(Split(ev.url)) = 9

\* after that step the crawl goes on to fetch the listing of the boundary URL
Searching == stack # << >> /\ Top.site = ev.url /\ Top.at = "connect"

\* C1: a survey whose ledger row had a non-empty grid_path when the crawl started gets
\* no listing fetch, no file download and no processing handoff in that crawl, and
\* no _ncei_scrape call for a URL in its subtree gets past _allow_shipname_surveyname
C1_IdempotentResume ==
    /\ \A u \in hist.fetched : ~UrlCompleted(u)
    /\ \A u \in hist.downloads : ~UrlCompleted(u)
    /\ \A i \in 1..Len(hist.handoffs) : ~PathCompleted(hist.handoffs[i])
    /\ \A i \in 1..Len(stack) : stack[i].at # "enter" => ~UrlCompleted(stack[i].site)

\* C1 witness: a later crawl has met, and finished after, the boundary of a survey that
\* was completed when it began
C1_Witness ==
    /\ pc = "done" /\ crawl_no = 2
    /\ \E i \in 1..Len(hist.reached) :
          GridRow(hist.ledger0, Key(hist.reached[i][1], hist.reached[i][2]))

\* C2: when ncei_scrape has returned, every survey whose boundary the crawl reached
\* has a row in the ledger
C2_ReachedSurveysCommitted ==
    pc = "done" =>
        \A i \in 1..Len(hist.reached) :
            HasRow(ledger, Key(hist.reached[i][1], hist.reached[i][2]))

\* C3: one connect_to_server call makes at most the configured maximum number of GET
\* attempts
C3_AtMostMaxAttempts ==
    pc \in {"scrape_connect", "query_connect"} => conn.gets <= server_reconnect_retries

\* C4: connect_to_server never raises to its caller
C4_NeverRaises ==
    pc \in {"scrape_connect", "query_connect"} => conn.out # "raised"

Counters(s) ==
    <<s.downloaded_success_count, s.downloaded_error_count, s.ignored_count>>

C5_Step ==
    LET u == Split(ev'.url)
        prev == Key(self.ship_name, self.survey_name)
    IN  /\ (ev'.act = "EnterFrame" /\ Len(u) = 9) =>
              /\ Len(ev'.log) = 3
              /\ ev'.log[1].op = "add_survey" /\ ev'.log[2].op = "set_survey"
              /\ (self.ship_name # << >> /\ self.survey_name # << >>) => HasRow(ledger', prev)
              /\ \/ ledger' = ledger
                 \/ /\ Len(ledger') = Len(ledger) + 1
                    /\ SubSeq(ledger', 1, Len(ledger)) = ledger
                    /\ RowKey(ledger'[Len(ledger')]) = prev
                    /\ ledger'[Len(ledger')].downloaded_success = self.downloaded_success_count
                    /\ ledger'[Len(ledger')].downloaded_error = self.downloaded_error_count
                    /\ ledger'[Len(ledger')].ignored = self.ignored_count
              /\ Counters(self') = <<0, 0, 0>>
              /\ self'.ship_name = Seg(u, 6) /\ self'.survey_name = Seg(u, 7)
              /\ ev'.url \notin hist'.fetched
        /\ (ev'.act = "EnterFrame" /\ Len(u) # 9) =>
              /\ ledger' = ledger /\ self' = self
              /\ Top'.site = ev'.url /\ Top'.at = "connect"
        /\ ~(ev'.act = "EnterFrame" /\ Len(u) = 9) => ledger' = ledger

\* C5: the survey-boundary bookkeeping happens only in _allow_shipname_surveyname for a
\* URL of exactly 9 segments: the previous survey is committed and the counters are
\* reset, then ship_name and survey_name are segments 6 and 7, then the decision is
\* made, before any fetch of that URL; for any other URL it returns True and leaves
\* the ledger and the attributes as they were
C5_BoundaryBookkeeping == [][C5_Step]_vars

\* C5 witness: a boundary step has committed the previous survey with a download counted
C5_Witness ==
    /\ AtBoundary
    /\ ev.log[1].inserted
    /\ ledger[Len(ledger)].downloaded_success = 1
    /\ self.survey_name = SurveyS2

C6_Step ==
    ledger' # ledger =>
        LET new == RowKey(ledger'[Len(ledger')])
        IN  /\ Len(ledger') = Len(ledger) + 1
            /\ SubSeq(ledger', 1, Len(ledger)) = ledger
            /\ ~HasRow(ledger, new)
            /\ \A i \in 1..Len(stack) :
                  Len(Split(stack[i].site)) >= 9 => UrlKey(stack[i].site) # new

\* C6: a row for a (ship, survey) is inserted at most once, and not while a
\* _ncei_scrape call for a URL of that survey's subtree is active
C6_InsertOnceNotMidTraversal == [][C6_Step]_vars

\* C6 witness: the previous survey's row was inserted as the crawl entered the next
\* survey, whose subtree it then searches
C6_Witness ==
    /\ AtBoundary /\ ev.log[1].inserted /\ Searching
    /\ RowKey(ledger[Len(ledger)]) # UrlKey(ev.url)

\* C7: the surveys table holds at most one row per lower-cased (ship_name, survey_name)
C7_KeyUnique ==
    \A i, j \in 1..Len(ledger) :
        i # j => Key(ledger[i].ship_name, ledger[i].survey)
                 # Key(ledger[j].ship_name, ledger[j].survey)

\* C7 witness: _add_survey for an upper-case spelling of a stored pair inserted nothing
C7_Witness ==
    /\ ev.act = "_add_survey"
    /\ ev.log[1].ship = <<"A","l">> /\ ev.log[1].survey = <<"S","1">>
    /\ ~ev.log[1].inserted
    /\ Len(ledger) = 2

C8_Step ==
    (ev'.act = "_add_survey" /\ HasRow(ledger, Key(self.ship_name, self.survey_name)))
        => ledger' = ledger

\* C8: _add_survey for a pair that already has a row leaves the table as it is
C8_NoUpsert == [][C8_Step]_vars

\* C8 witness: _add_survey was called for a stored pair with other counters and paths
\* than the stored row holds
C8_Witness ==
    /\ ev.act = "_add_survey"
    /\ ~ev.log[1].inserted
    /\ \E i \in 1..Len(ledger) :
          /\ RowKey(ledger[i]) = RowKey(ev.log[1].row)
          /\ ledger[i].grid_path = << >> /\ ev.log[1].row.grid_path # << >>
          /\ ledger[i].downloaded_success # ev.log[1].row.downloaded_success

\* the allowed survey list holds the lower-cased survey segment
InAllowed(survey) == InList(region_survey_name, Lower(survey))

\* the allowed ship name at the position of the survey's first occurrence in the list
AllowedShip(survey) == region_ship_name[IndexOf(region_survey_name, Lower(survey))]

\* the first failing condition, with the ship test `same`
FirstFailing(ship, survey, same) ==
    IF ~InAllowed(survey) THEN "survey_not_in_region"
    ELSE IF ~same THEN "ship_mismatch"
    ELSE IF GridRow(ledger, Key(ship, survey)) THEN "already_processed"
    ELSE "search"

\* the claim about the boundary decision, with the ship test eq(allowed, ship)
Decides(same) ==
    LET u == Split(ev.url)
        ship == Seg(u, 6)
        survey == Seg(u, 7)
    IN  /\ Searching <=> /\ InAllowed(survey)
                         /\ same
                         /\ ~GridRow(ledger, Key(ship, survey))
        /\ ev.log[3].op = FirstFailing(ship, survey, same)
        /\ ~Searching => ev.url \notin hist.fetched

\* C9 as claimed: with a non-empty allowed list the boundary decision is to search
\* iff the survey is in the list, the allowed ship name of that survey equals the
\* URL's ship segment, and the ledger shows no completed grid
C9_Original ==
    (AtBoundary /\ region_survey_name # << >>) =>
        LET u == Split(ev.url)
        IN  Decides(InAllowed(Seg(u, 7)) /\ AllowedShip(Seg(u, 7)) = Seg(u, 6))

\* C9 as amended: ... the allowed ship name of that survey, with its spaces replaced by
\* underscores, equals the URL's ship segment ...
C9_SkipDecision ==
    (AtBoundary /\ region_survey_name # << >>) =>
        LET u == Split(ev.url)
        IN  Decides(InAllowed(Seg(u, 7))
                    /\ ReplaceSpace(AllowedShip(Seg(u, 7))) = Seg(u, 6))

\* C9 witness: the boundary of b_c/s3, allowed as ship 'b c', is searched
C9_Witness ==
    /\ AtBoundary /\ Searching
    /\ self.ship_name = ShipBC /\ self.survey_name = SurveyS3
    /\ region_survey_name # << >>

\* C10: in a crawl with no region restriction a survey with no completed grid in the
\* ledger is searched
C10_FullSiteCrawlSearches ==
    (AtBoundary /\ ~region /\ ~GridRow(ledger, UrlKey(ev.url))) => Searching

\* the rows the running crawl has inserted
CrawlRows == { ledger[i] : i \in (Len(hist.ledger0) + 1)..Len(ledger) }

\* C11: a row the crawl commits has an empty grid_path unless a grid export succeeded
\* for that survey in that crawl
C11_GridPathOnlyAfterExport ==
    \A row \in CrawlRows : RowKey(row) \notin hist.exported => row.grid_path = << >>

\* C12: a failed processing handoff is caught, the row committed for that survey has
\* an empty grid_path, and the failure does not leave ncei_scrape as an exception
C12_FailedHandoffDowngrades ==
    /\ \A row \in CrawlRows :
          (RowKey(row) \in hist.failed /\ RowKey(row) \notin hist.exported)
              => row.grid_path = << >>
    /\ (ev.act = "FrameEnd" /\ ev.log[1] = "handoff_raised") => pc # "raised"

\* C13: when run_kluster returns with processed False or gridded False, every raw file
\* that was passed to it is still on disk
C13_RawKeptOnFailure ==
    (ev.act = "FrameEnd" /\ ev.log[1] = "handoff"
        /\ (~ev.log[2].processed \/ ~ev.log[2].gridded))
        => ev.log[2].given \subseteq fs

\* C14: a storage error of the ledger at a survey boundary ends the run: it leaves
\* ncei_scrape as an exception
C14_StorageErrorIsFatal ==
    ev.act = "StorageError" => pc = "raised"

\* C15: when connect_to_server returns None for a listing, _ncei_scrape raises nothing
C15_NoneSurfacesNoException ==
    (ev.act = "Connect" /\ ev.log[1] = "none") => (ev.log[2] # "raise" /\ pc # "raised")

\* the step just taken ended the innermost _ncei_scrape call with an exception
RaisedOut(e) ==
    \/ e.act = "Connect" /\ e.log[2] = "raise"
    \/ e.act = "FrameEnd" /\ e.log[1] = "handoff_raised"
    \/ e.act = "StorageError"

C16_Step ==
    /\ (RaisedOut(ev') /\ Len(stack) > 1) =>
          /\ pc' = "crawl"
          /\ stack' = Front(stack)
          /\ stack'[Len(stack')].at = "loop"
    /\ (ev'.act = "Anchor" /\ ev'.log[1] = "except") =>
          /\ pc' = "crawl"
          /\ stack' = WithTop([Top EXCEPT !.anchors = Tail(@)])
          /\ self' = self /\ fs' = fs /\ ledger' = ledger

\* C16: an exception raised while one anchor is handled (in the anchor itself, or in
\* the _ncei_scrape call made for its sub-directory) is caught by the loop of the
\* listing, which goes on with the anchors that follow
C16_AnchorExceptionContained == [][C16_Step]_vars

\* C16 witness: the call for a sub-directory has raised and its caller still has
\* anchors to visit
C16_Witness ==
    /\ RaisedOut(ev)
    /\ pc = "crawl" /\ stack # << >>
    /\ Top.at = "loop" /\ Top.anchors # << >>

\* the step just taken was _download_file_url for the link e.url
Downloading(e) == e.act = "Anchor" /\ e.log[1] = "file"

C17_Step ==
    Downloading(ev') =>
        LET u == ev'.url
            ds == self'.downloaded_success_count - self.downloaded_success_count
            de == self'.downloaded_error_count - self.downloaded_error_count
            di == self'.ignored_count - self.ignored_count
            untouched == fs' = fs /\ hist'.downloads = hist.downloads
        IN  IF Suffix(u, 8) \in extensions
            THEN <<ds, de, di>> \in { <<1, 0, 0>>, <<0, 1, 0>> }
            ELSE IF Suffix(u, 3) = <<".", "g", "z">>
            THEN <<ds, de, di>> = <<0, 0, 1>> /\ untouched
            ELSE <<ds, de, di>> = <<0, 0, 0>> /\ untouched

\* C17: _download_file_url counts a link with a raw extension as exactly one success
\* or one error, a link that only ends in '.gz' as one ignored file with no download,
\* and leaves the counters and the disk alone for any other link
C17_Classification == [][C17_Step]_vars

\* C17 witness: in al/s2 the link r.txt was passed over, h.all.mb59.gz downloaded and
\* n.gz ignored
C17_Witness ==
    /\ Downloading(ev)
    /\ Suffix(ev.url, Len(FileN)) = FileN
    /\ self.survey_name = SurveyS2
    /\ Counters(self) = <<1, 0, 1>>

\* the local path the raw file of the link url is written to
Destination(url) ==
    LET u == Split(url)
    IN  Join(Join(Join(output_folder, Seg(u, 6)), Seg(u, 7)),
             DropSuffix(u[Len(u)], 8))

C18_Step ==
    (Downloading(ev') /\ Suffix(ev'.url, 8) \in extensions
        /\ Destination(ev'.url) \in fs)
        => /\ fs' = fs
           /\ hist'.downloads = hist.downloads
           /\ self'.downloaded_success_count = self.downloaded_success_count + 1
           /\ self'.downloaded_error_count = self.downloaded_error_count

\* C18: when the destination of a raw file already exists, download_multibeam_file
\* makes no request and leaves the disk as it is, and _download_file_url counts the
\* file as a success
C18_ExistingDestinationSkipped == [][C18_Step]_vars

\* C18 witness: in a later crawl a raw file left on disk was counted as a success
\* with no request made for it
C18_Witness ==
    /\ Downloading(ev)
    /\ Suffix(ev.url, 8) \in extensions
    /\ Destination(ev.url) \in fs
    /\ ev.url \notin hist.downloads
    /\ self.downloaded_success_count = 1
    /\ crawl_no = 2

\* C19: a download_multibeam_file call for a destination that is not there makes at
\* most download_retries attempts, returns True at the first attempt that succeeds,
\* with the destination then on disk, and returns False after download_retries
\* failed attempts
C19_DownloadRetriesBounded ==
    pc = "download" =>
        /\ download.attempts <= download.download_retries
        /\ download.out \in {"running", "true", "false"}
        /\ (download.out = "true" /\ download.attempts > 0) =>
              /\ download.output_path \in fs
              /\ download.retries = download.attempts - 1
              /\ ev.log[1] = "ok"
        /\ download.out = "false" =>
              /\ download.attempts = download.download_retries
              /\ download.retries = download.download_retries
        /\ (download.out = "running" /\ download.at = "loop") =>
              download.retries = download.attempts

\* C19 witness: with the default setting the call has returned False after 20
\* failed attempts
C19_Witness ==
    /\ pc = "download"
    /\ download.out = "false"
    /\ download.download_retries = DefaultDownloadRetries
    /\ download.attempts = 20

\* the link url is a raw file of a survey whose processed folder is among files
\* while its raw folder is not
ShortcutCase(url, files) ==
    /\ Suffix(url, 8) \in extensions
    /\ LET u == Split(url)
           raw == Join(Join(output_folder, Seg(u, 6)), Seg(u, 7))
       IN  /\ Len(u) >= 9
           /\ (raw \o ProcessedSuffix) \in files
           /\ raw \notin files

\* the step just taken left the loop of a listing by the shortcut
TookShortcut(e) == e.act = "Anchor" /\ e.log[1] = "break"

\* the step just taken called run_kluster
HandedOff(e) == e.act = "FrameEnd" /\ e.log[1] \in {"handoff", "handoff_raised"}

\* when the crawl meets the shortcut case it downloads nothing, counts nothing and
\* visits no later link of the listing
C20_NoDownload ==
    (ev'.act = "Anchor" /\ ShortcutCase(ev'.url, fs)) =>
        /\ TookShortcut(ev')
        /\ fs' = fs
        /\ hist'.downloads = hist.downloads
        /\ Counters(self') = Counters(self)
        /\ stack'[Len(stack')].site = Top.site
        /\ stack'[Len(stack')].anchors = << >>

\* C20 as claimed: ... and the next thing the crawl does is call the processing handoff
C20_Original ==
    [][C20_NoDownload /\ (TookShortcut(ev) => HandedOff(ev'))]_vars

\* C20 as amended: ... and the next thing the crawl does is kluster_process, which
\* calls the processing handoff when the processing engine is available
C20_ResumeShortcut ==
    [][/\ C20_NoDownload
       /\ TookShortcut(ev) =>
             /\ ev'.act = "FrameEnd" /\ ev'.url = Top.site
             /\ kluster_enabled => HandedOff(ev')]_vars

\* C20 witness: the handoff was made for a survey whose raw folder is not on disk,
\* with nothing downloaded
C20_Witness ==
    /\ HandedOff(ev) /\ ev.log[1] = "handoff"
    /\ self.survey_name = SurveyS2
    /\ self.raw_data_path # << >> /\ self.raw_data_path \notin fs
    /\ hist.downloads = {}

-----------------------------------------------------------------------------
(* Exclusion of vessels at ship level                                      *)

\* the URL lies under the directory of a ship named in exclude_vessels
UnderExcluded(url) ==
    LET u == Split(url)
    IN  Len(u) >= 7 /\ Seg(u, 6) \in exclude_vessels

\* the anchor links a sub-directory: href equal to the link text, ending in '/'
SubDirectory(a) == a.attrs /\ EndsWithSlash(a.href) /\ a.href = a.text

C21_Step ==
    /\ (ev'.act = "Anchor" /\ SubDirectory(Head(Top.anchors))) =>
          LET a == Head(Top.anchors)
          IN  IF Top.shiplevel /\ RStripSlash(a.text) \in exclude_vessels
              THEN /\ Len(stack') = Len(stack)
                   /\ stack'[Len(stack')].anchors = Tail(Top.anchors)
                   /\ ledger' = ledger /\ fs' = fs /\ self' = self
                   /\ hist'.fetched = hist.fetched
                   /\ hist'.downloads = hist.downloads
              ELSE /\ Len(stack') = Len(stack) + 1
                   /\ stack'[Len(stack')] = Frame(Top.site \o a.href, FALSE)
                   /\ stack'[Len(stack)].anchors = Tail(Top.anchors)
    /\ \A url \in hist'.fetched \cup hist'.downloads : ~UnderExcluded(url)
    /\ \A i \in 1..Len(stack') : ~UnderExcluded(stack'[i].site)
    /\ \A i \in 1..Len(ledger') : ledger'[i].ship_name \notin exclude_vessels
    /\ \A i \in 1..Len(hist'.reached) : hist'.reached[i][1] \notin exclude_vessels

\* C21: at ship level a sub-directory named in exclude_vessels is passed over with no
\* recursion, so no listing is fetched, no file downloaded and no ledger row written
\* for a URL under an excluded ship; every other sub-directory anchor starts a call
\* of _ncei_scrape one level deeper
C21_ExcludedNeverCrawled == [][C21_Step]_vars

\* C21 witness: the crawl has passed over ahi/ at the root, gone into al/ and from
\* there into a survey directory, and has fetched listings
C21_Witness ==
    /\ pc = "crawl" /\ Len(stack) = 3
    /\ stack[1].shiplevel /\ ~stack[3].shiplevel
    /\ \A i \in 1..Len(stack[1].anchors) : stack[1].anchors[i] # Dir(ShipAhi)
    /\ Seg(Split(stack[3].site), 6) = ShipAl
    /\ Cardinality(hist.fetched) >= 2

-----------------------------------------------------------------------------
(* Chunked paging of the region query                                      *)

\* the follow-up queries issued for envelope number cnt, in order
RequestsFor(cnt) == SelectSeq(hist.requests, LAMBDA r : r.cnt = cnt)

RECURSIVE Flatten(_)
\* the chunks of a list of follow-up queries, end to end
Flatten(reqs) ==
    IF reqs = << >> THEN << >> ELSE Head(reqs).chunk_ids \o Flatten(Tail(reqs))

RECURSIVE SumLen(_)
SumLen(lists) == IF lists = << >> THEN 0 ELSE Len(Head(lists)) + SumLen(Tail(lists))

\* the least k with k * ChunkSize >= n
Chunks(n) == CHOOSE k \in 0..n : k * ChunkSize >= n /\ (k = 0 \/ (k - 1) * ChunkSize < n)

\* C22: for every identifier count N the identifiers-only query returns, query
\* issues ceil(N/500) follow-up queries of at most 500 identifiers each, the chunks
\* are consecutive slices holding every identifier exactly once, and when every
\* follow-up answers one feature per identifier the accumulated list has length N
C22_ChunkedPaging ==
    /\ \A r \in 1..Len(hist.requests) :
          Len(hist.requests[r].chunk_ids) \in 1..ChunkSize
    /\ \A e \in 1..Len(hist.ids) :
          LET reqs == RequestsFor(e - 1)
              done == e - 1 < query.cnt
          IN  IF done
              THEN Len(reqs) = Chunks(Len(hist.ids[e])) /\ Flatten(reqs) = hist.ids[e]
              ELSE query.at = "raised"
                     \/ Flatten(reqs) = SubSeq(hist.ids[e], 1, SumLen(
                                   [i \in 1..Len(reqs) |-> reqs[i].chunk_ids]))
    /\ (hist.complete /\ query.at = "returned") =>
          Len(query.feature_data.features) = SumLen(hist.ids)

\* C22 witness: a query over two envelopes returned after 501 and 1000 identifiers,
\* with four follow-up queries made and 1501 features accumulated
C22_Witness ==
    /\ query.at = "returned" /\ hist.complete
    /\ Len(hist.ids) = 2 /\ Len(hist.ids[1]) = 501 /\ Len(hist.ids[2]) = 1000
    /\ Len(hist.requests) = 4
    /\ Len(hist.requests[2].chunk_ids) = 1
    /\ Len(query.feature_data.features) = 1501

\* the step just taken was the identifiers-only query of an envelope, and it
\* returned no identifier
EmptyEnvelope(e, h) ==
    e.act = "QueryEnvelope" /\ h.ids # << >> /\ h.ids[Len(h.ids)] = << >>

C23_Step ==
    /\ EmptyEnvelope(ev', hist') =>
          /\ hist'.errors = Append(hist.errors, query.cnt)
          /\ hist'.requests = hist.requests
          /\ query'.feature_data = query.feature_data
          /\ query'.cnt = query.cnt + 1
          /\ query'.at = IF query.cnt + 1 < Len(query.envelope_extents)
                         THEN "envelope" ELSE "returned"
    /\ \A i \in 1..Len(hist'.errors) :
          \A r \in 1..Len(hist'.requests) : hist'.requests[r].cnt # hist'.errors[i]
    /\ query'.at = "returned" => Len(hist'.ids) = Len(query'.envelope_extents)

\* C23: when the identifiers-only query of an envelope returns no identifier, query
\* logs an error, issues no follow-up query for that envelope, keeps the features
\* accumulated so far, and goes on to every remaining envelope
C23_EmptyEnvelopeSkipped == [][C23_Step]_vars

\* C23 witness: the first envelope gave 501 features, the second returned no
\* identifier; the query returned with the 501 features and one error logged
C23_Witness ==
    /\ EmptyEnvelope(ev, hist)
    /\ query.at = "returned"
    /\ hist.errors = << 1 >>
    /\ Len(hist.ids) = 2 /\ Len(hist.ids[1]) = 501
    /\ Len(query.feature_data.features) = 501

\* C23 witness of the other order: the first envelope returned no identifier and
\* the second was still queried
C23_WitnessFirst ==
    /\ hist.errors = << 0 >>
    /\ Len(hist.ids) = 2 /\ Len(hist.ids[2]) = 500
    /\ query.at = "returned"

-----------------------------------------------------------------------------
(* The identity lists of a region                                          *)

\* the lists _check_regions stored hold lower-cased names and are equally long
C24_LowerEqualLength ==
    ev.act = "CheckRegions" =>
        /\ Len(region_ship_name) = Len(region_survey_name)
        /\ \A i \in 1..Len(region_survey_name) :
              /\ region_survey_name[i] = Lower(region_survey_name[i])
              /\ region_ship_name[i] = Lower(region_ship_name[i])

\* C24: the (ship, survey) lists survey_names_in_region derives are lower-cased, of
\* equal length and de-duplicated: no survey name occurs twice, whatever the case
\* the SURVEY_ID values are written in
C24_NamesDeduplicated ==
    ev.act = "CheckRegions" =>
        /\ C24_LowerEqualLength
        /\ \A i, j \in 1..Len(region_survey_name) :
              region_survey_name[i] = region_survey_name[j] => i = j

-----------------------------------------------------------------------------
(* Lookups in a Regions object                                             *)

\* every geopackage has been through _build_region_lists
RegionsBuilt == pc = "regions" /\ regions.built = Len(RegionPaths)

\* both builds of geopackage number i went through
Loaded(i) == hist[i].bounds /\ hist[i].wkt

\* a build of some geopackage raised
SomeBuildFailed == \E i \in 1..Len(hist) : ~Loaded(i)

\* region_name names the geopackage regi: its full path, or its file name with or
\* without the extension
Names(region_name, regi) ==
    \/ region_name = regi
    \/ region_name \o GpkgExt = Basename(regi)
    \/ region_name = Basename(regi)

\* the point lies in one of the boxes of the geopackage regi, bounds inclusive
InRegion(lon, lat, regi) ==
    \E k \in 1..Len(FileBounds(regi)) :
        LET b == FileBounds(regi)[k]
        IN  lon \in b.xmin..b.xmax /\ lat \in b.ymin..b.ymax

\* C25: when building the bounds or the geometry of one region file fails during
\* the load, every other region still resolves by name to its own bounds and its
\* own geometry, and a point in another region's box is reported under that
\* region's own identifier
C25_FailedRegionOnlyAbsent ==
    (RegionsBuilt /\ SomeBuildFailed) =>
        \A i \in 1..Len(RegionPaths) :
            LET regi == RegionPaths[i]
            IN  Loaded(i) =>
                  /\ (ev.act = "ByName" /\ Names(ev.url, regi) /\ ev.log[1] = "bounds")
                        => ev.log[2] = [kind |-> "value", value |-> FileBounds(regi)]
                  /\ (ev.act = "ByName" /\ Names(ev.url, regi) /\ ev.log[1] = "wkt")
                        => ev.log[2] = [kind |-> "value", value |-> FileWkt(regi)]
                  /\ (ev.act = "ByPosition" /\ InRegion(ev.url[1], ev.url[2], regi))
                        => /\ InList(ev.log[1], regi)
                           /\ \A j \in 1..Len(ev.log[1]) :
                                 InRegion(ev.url[1], ev.url[2], ev.log[1][j])

\* C26: return_regions_by_position returns the identifier of a region iff the point
\* lies, bounds inclusive, in at least one of that region's bounding boxes (a region
\* whose bounds could not be built has none)
C26_PositionLookup ==
    (RegionsBuilt /\ ev.act = "ByPosition") =>
        \A i \in 1..Len(RegionPaths) :
            InList(ev.log[1], RegionPaths[i])
                <=> (hist[i].bounds /\ InRegion(ev.url[1], ev.url[2], RegionPaths[i]))

\* with every build gone through, the lookups by name and by position answer each
\* region's own bounds, geometry and identifier
AlignedLookups ==
    (RegionsBuilt /\ ~SomeBuildFailed) =>
        /\ ev.act = "ByPosition" =>
              \A i \in 1..Len(RegionPaths) :
                  InList(ev.log[1], RegionPaths[i])
                      <=> InRegion(ev.url[1], ev.url[2], RegionPaths[i])
        /\ (ev.act = "ByName" /\ ev.log[1] = "bounds") =>
              \A i \in 1..Len(RegionPaths) :
                  Names(ev.url, RegionPaths[i]) =>
                      ev.log[2] = [kind |-> "value", value |-> FileBounds(RegionPaths[i])]

-----------------------------------------------------------------------------
(* Lookups in the ledger                                                   *)

\* a and b are the same name but for the case of their letters
SameButCase(a, b) ==
    /\ Len(a) = Len(b)
    /\ \A i \in 1..Len(a) :
          \/ a[i] = b[i]
          \/ \E k \in 1..Len(UpperChars) :
                {a[i], b[i]} = {UpperChars[k], LowerChars[k]}

\* the name has no upper-case letter
IsLowerCase(a) == \A i \in 1..Len(a) : ~InList(UpperChars, a[i])

\* C27: a committed record is stored under its lower-cased names, whatever the case
\* it was held in; _check_for_survey answers True for every spelling of a stored
\* pair and False for a pair that differs from every stored pair by more than case
C27_CaseRoundTrip ==
    /\ \A i \in 1..Len(ledger) :
          IsLowerCase(ledger[i].ship_name) /\ IsLowerCase(ledger[i].survey)
    /\ (ev.act = "_add_survey" /\ ev.log[1].inserted) =>
          /\ SameButCase(ledger[Len(ledger)].ship_name, ev.log[1].ship)
          /\ SameButCase(ledger[Len(ledger)].survey, ev.log[1].survey)
    /\ ev.act = "_check_for_survey" =>
          (ev.log[1].ret <=>
              \E i \in 1..Len(ledger) :
                  /\ SameButCase(ledger[i].ship_name, ev.log[1].ship)
                  /\ SameButCase(ledger[i].survey, ev.log[1].survey))

\* C27 witness: the record held as ('Al', 'S1') was committed, and the pair was then
\* found under the spelling ('AL', 's1')
C27_Witness ==
    /\ ev.act = "_check_for_survey"
    /\ ev.log[1].ship = <<"A","L">> /\ ev.log[1].survey = <<"s","1">>
    /\ ev.log[1].ret
    /\ Len(ledger) = 1
    /\ ledger[1].raw_data_path = SurveyFolder(<<"A","l">>, <<"S","1">>)
    /\ ledger[1].ship_name = <<"a","l">> /\ ledger[1].survey = <<"s","1">>

\* C27 witness of the negative answer: with (al, s1) stored, ('ala', 'S1') is not found
C27_WitnessAbsent ==
    /\ ev.act = "_check_for_survey"
    /\ ev.log[1].ship = <<"a","l","a">> /\ ev.log[1].survey = <<"S","1">>
    /\ ~ev.log[1].ret
    /\ Len(ledger) = 1 /\ ledger[1].survey = <<"s","1">>

\* C28: _check_for_grid answers True iff the ledger has a row for the lower-cased
\* pair whose grid_path is not empty: False with no row for the pair, and False
\* with a row whose grid_path is empty
C28_GridLookup ==
    ev.act = "_check_for_grid" =>
        (ev.log[1].ret <=>
            \E i \in 1..Len(ledger) :
                /\ RowKey(ledger[i]) = Key(ev.log[1].ship, ev.log[1].survey)
                /\ Len(ledger[i].grid_path) > 0)

\* C28 witness: the ledger holds (al, s1) with a grid and (al, s2) without one; the
\* lookup of ('Al', 'S2') answered False
C28_Witness ==
    /\ ev.act = "_check_for_grid"
    /\ ev.log[1].ship = <<"A","l">> /\ ev.log[1].survey = <<"S","2">>
    /\ ~ev.log[1].ret
    /\ \E i, j \in 1..Len(ledger) :
          /\ ledger[i].survey = <<"s","1">> /\ ledger[i].grid_path # << >>
          /\ ledger[j].survey = <<"s","2">> /\ ledger[j].grid_path = << >>

\* C28 witness of the positive answer
C28_WitnessFound ==
    /\ ev.act = "_check_for_grid"
    /\ ev.log[1].ship = <<"A","L">> /\ ev.log[1].survey = <<"S","1">>
    /\ ev.log[1].ret

C29_Step ==
    (ev'.act = "_add_survey" /\ (Len(self.ship_name) = 0 \/ Len(self.survey_name) = 0))
        => /\ ledger' = ledger
           /\ pc' = pc
           /\ self'.ship_name = << >> /\ self'.survey_name = << >>
           /\ Counters(self') = <<0, 0, 0>>
           /\ self'.raw_data_path = << >>
           /\ self'.processed_data_path = << >>
           /\ self'.grid_path = << >>

\* C29: _add_survey with an empty ship_name or an empty survey_name leaves the table
\* as it is and raises nothing; the attributes are still reset to their defaults
C29_EmptyNameNoOp == [][C29_Step]_vars

\* C29 witness: _add_survey ran with no ship name but a survey name, counters and
\* paths set, on a table that already had a row; nothing was inserted
C29_Witness ==
    /\ ev.act = "_add_survey"
    /\ ev.log[1].ship = << >> /\ ev.log[1].survey # << >>
    /\ ev.log[1].row.downloaded_success = 1 /\ ev.log[1].row.grid_path # << >>
    /\ ~ev.log[1].inserted
    /\ Len(ledger) = 1
    /\ self = BaseBackendInit

-----------------------------------------------------------------------------
(* Opening the ledger                                                      *)

\* C30: after _configure_backend returns the surveys table exists in the ledger
\* file, whether the file was absent, present with the table or present without
\* it, and the rows stored before are still there
C30_TableAfterConfigure ==
    pc = "configured" =>
        /\ database_file \in fs
        /\ SurveysTable \in schema
        /\ ledger = hist.ledger0

\* the part of C30 that holds from every prior state: the file is there after
\* _configure_backend and the rows stored before are kept
FileAndRowsKept ==
    pc = "configured" => database_file \in fs /\ ledger = hist.ledger0

-----------------------------------------------------------------------------
(* The ledger only grows                                                   *)

\* the rows of led, in order, are the first rows of led2
IsPrefix(led, led2) ==
    /\ Len(led) <= Len(led2)
    /\ \A i \in 1..Len(led) : led2[i] = led[i]

\* C31: no step of a crawl, and no start of a later crawl on the same output
\* folder, deletes or alters a row of the ledger: the rows before the step are
\* the first rows after it, field for field
C31_Step == IsPrefix(ledger, ledger')

C31_RowsOnlyGrow == [][C31_Step]_vars

\* a later crawl commits a pair whose row is already in the ledger while holding
\* other values for it, and the ledger holds two rows
C31_Witness ==
    /\ crawl_no = 2
    /\ AtBoundary
    /\ ev.log[1].op = "add_survey"
    /\ ev.log[1].ship # <<>>
    /\ ~ev.log[1].inserted
    /\ \A i \in 1..Len(ledger) : ledger[i] # ev.log[1].row
    /\ Len(ledger) >= 2

-----------------------------------------------------------------------------
(* Removing a row of the ledger                                            *)

\* the rows of led without the row of the key k
WithoutKey(led, k) == SelectSeq(led, LAMBDA r : RowKey(r) # k)

\* C32: after _remove_survey(ship, survey) the call has returned, the table holds
\* the rows it held before except the row of the lower-cased pair, and so neither
\* lookup finds the pair
C32_RemoveSurvey ==
    ev.act = "_remove_survey" =>
        LET k == Key(ev.log[1].ship, ev.log[1].survey)
        IN  /\ pc = "ledger"
            /\ ledger = WithoutKey(ev.log[1].before, k)
            /\ ~HasRow(ledger, k)

\* what the code does instead: _remove_survey raises and the table is as before
RemoveSurveyRaises ==
    ev.act = "_remove_survey" => pc = "raised" /\ ledger = ev.log[1].before

-----------------------------------------------------------------------------
(* The envelopes of a query: _build_extents_query, then query               *)

\* the envelope {} : a dict with no key
EmptyExtent == << >>

\* a value of the envelope_extents parameter of query: None, a dict or a list
NoneValue == [kind |-> "none", value |-> << >>]

DictValue(d) == [kind |-> "dict", value |-> d]

ListValue(l) == [kind |-> "list", value |-> l]

\* _build_extents_query for the Regions object r: the envelope_extents query loops
\* over, or the IndexError of return_region_by_name.  region_name is '' or None
\* when it is << >>
_build_extents_query(r, envelope_extents, region_name) ==
    LET found == return_region_by_name(r, region_name, TRUE, FALSE)
        named == IF region_name = << >> THEN envelope_extents
                 ELSE IF found.kind = "value" THEN ListValue(found.value)
                 ELSE NoneValue
        listed == IF named.kind = "dict" THEN ListValue(<< named.value >>) ELSE named
        falsy == listed.kind = "none" \/ listed.value = << >>
    IN  IF region_name # << >> /\ found.kind = "raised"
        THEN [raised |-> TRUE, envelope_extents |-> << >>]
        ELSE [raised |-> FALSE,
              envelope_extents |-> IF falsy THEN << EmptyExtent >> ELSE listed.value]

\* Regions.__init__ through _build_region_lists with the build outcomes got1..got3
BuiltRegions(got1, got2, got3) ==
    _build_region_lists_pass(
        _build_region_lists_pass(_build_region_lists_pass(RegionsStart, got1), got2),
        got3)

\* the envelope_extents a caller passes: None, one dict, a list of dicts
SuppliedExtents ==
    { NoneValue, DictValue(Box(5, 1, 6, 2)), ListValue(<< Box(5, 1, 6, 2), Box(2, 0, 3, 1) >>) }

\* the region_name a caller passes: none, a region file by name or by path, and a
\* name no file has
SuppliedNames == { << >>, RegionA, RegionC, RegionPath(RegionB), <<"z">> }

\* NceiQuery.__init__ has built its Regions object (the wkt of every geopackage
\* was built, the bounds of any of them may have failed); query has not been called
ExtentsInit ==
    /\ ledger = << >>
    /\ self = BaseBackendInit
    /\ region = TRUE
    /\ region_ship_name = << >>
    /\ region_survey_name = << >>
    /\ kluster_enabled = FALSE
    /\ kluster_configured = FALSE
    /\ server_reconnect_retries = DefaultServerReconnectRetries
    /\ fs = {output_folder}
    /\ stack = << >>
    /\ pc = "extents"
    /\ ev = [act |-> "Init", url |-> << >>, log |-> << >>]
    /\ conn = ConnIdle
    /\ faults = 0
    /\ crawl_no = 0
    /\ download = DownloadIdle
    /\ schema = {SurveysTable}
    /\ query = QueryIdle
    /\ \E b1, b2, b3 \in BOOLEAN :
         /\ regions = BuiltRegions([bounds |-> b1, wkt |-> TRUE],
                                   [bounds |-> b2, wkt |-> TRUE],
                                   [bounds |-> b3, wkt |-> TRUE])
         /\ hist = QueryHistInit @@
                     [ region_name |-> << >>, supplied |-> NoneValue,
                       built |-> << b1, b2, b3 >> ]

\* query lines 314: _validate_query_parameters stores the parameters and calls
\* _build_extents_query
BuildExtentsQuery ==
    /\ pc = "extents"
    /\ \E envelope_extents \in SuppliedExtents, region_name \in SuppliedNames :
         LET r == _build_extents_query(regions, envelope_extents, region_name)
         IN  /\ pc' = IF r.raised THEN "raised" ELSE "query"
             /\ query' = IF r.raised THEN query ELSE QueryStart(r.envelope_extents)
             /\ hist' = [hist EXCEPT !.region_name = region_name,
                                     !.supplied = envelope_extents]
             /\ ev' = [act |-> "BuildExtentsQuery", url |-> << >>,
                       log |-> << region_name >>]
    /\ UNCHANGED <<schema, regions, download, ledger, self, region, region_ship_name,
                   region_survey_name, kluster_enabled, kluster_configured,
                   server_reconnect_retries, fs, stack, conn, faults, crawl_no>>

ExtentsNext == BuildExtentsQuery \/ QueryEnvelope \/ QueryChunk

SpecExtents == ExtentsInit /\ [][ExtentsNext]_vars

\* the envelope of the queries of envelope number cnt (counted from 0)
EnvelopeOf(cnt) == query.envelope_extents[cnt + 1]

\* the envelopes the queries issued so far carried: one identifiers-only query for
\* each entry of hist.ids, and the follow-up queries
IssuedEnvelopes ==
    { EnvelopeOf(i - 1) : i \in 1..Len(hist.ids) }
        \cup { EnvelopeOf(hist.requests[i].cnt) : i \in 1..Len(hist.requests) }

\* the envelope is a box of a geopackage region_name names
BelongsTo(envelope, region_name) ==
    \E i \in 1..Len(RegionPaths) :
        /\ Names(region_name, RegionPaths[i])
        /\ \E k \in 1..Len(FileBounds(RegionPaths[i])) :
               FileBounds(RegionPaths[i])[k] = envelope

\* C33: when a region name was supplied, every identifiers-only and follow-up
\* query carries a non-empty envelope that is a box of that region; a name that
\* resolves to nothing issues no query with an empty envelope
C33_RegionEnvelopes ==
    (pc = "query" /\ hist.region_name # << >>) =>
        \A e \in IssuedEnvelopes :
            DOMAIN e # {} /\ BelongsTo(e, hist.region_name)

\* without a region name the queries carry the envelopes the caller supplied, and
\* the empty envelope only when none was supplied
SuppliedEnvelopesUsed ==
    (pc = "query" /\ hist.region_name = << >>) =>
        \A e \in IssuedEnvelopes :
            IF hist.supplied.kind = "none" THEN DOMAIN e = {}
            ELSE DOMAIN e # {}

-----------------------------------------------------------------------------
(* Termination of a crawl: the server answers any listing with any mix of    *)
(* 2xx and non-2xx status codes, for as long as it likes                     *)

\* the most GET attempts counted for one listing
MaxLiveGets == 4

\* the status codes the server answers with: success, and two server errors
LiveStatusCodes == {200, 500, 504}

\* the state after construction: no region, processing not enabled
LiveInit ==
    /\ ledger = << >>
    /\ self = BaseBackendInit
    /\ region = FALSE
    /\ region_ship_name = << >>
    /\ region_survey_name = << >>
    /\ kluster_enabled = FALSE
    /\ kluster_configured = FALSE
    /\ server_reconnect_retries = DefaultServerReconnectRetries
    /\ fs = {output_folder}
    /\ stack = << >>
    /\ pc = "idle"
    /\ ev = [act |-> "Init", url |-> << >>, log |-> << >>]
    /\ conn = ConnIdle
    /\ faults = 0
    /\ crawl_no = 0
    /\ download = DownloadIdle
    /\ regions = RegionsNone
    /\ schema = {SurveysTable}
    /\ query = QueryIdle
    /\ hist = HistInit(<< >>)

\* _ncei_scrape lines 265-266 with a server that answers every GET with a status
\* code: one pass of the loop of connect_to_server, and on a 2xx response the
\* parse of its anchors.  After MaxLiveGets passes the loop goes on as before and
\* gets, retries and warnings are no longer counted up (retries grows with every
\* pass that does not return, so the loop test reads the same either way)
LiveConnect ==
    /\ pc = "crawl" /\ Top.at = "connect"
    /\ \E got \in {Response(status) : status \in LiveStatusCodes} :
         LET pass == connect_to_server(conn, got)
             c == IF conn.gets < MaxLiveGets THEN pass
                  ELSE [pass EXCEPT !.gets = conn.gets, !.retries = conn.retries,
                                    !.warnings = conn.warnings]
         IN  /\ conn' = c
             /\ hist' = IF c.gets > conn.gets
                        THEN [hist EXCEPT !.fetched = @ \cup {Top.site}]
                        ELSE hist
             /\ ev' = [act |-> "Connect", url |-> Top.site,
                       log |-> << c.out, IF c.out \in {"none", "raised"}
                                         THEN "raise" ELSE "go" >>]
             /\ IF c.out = "resp"
                THEN /\ stack' = WithTop([Top EXCEPT !.at = "loop",
                                                     !.anchors = Listing(Top.site)])
                     /\ pc' = pc
                ELSE IF c.out = "running"
                THEN UNCHANGED <<stack, pc>>
                ELSE Raise
    /\ UNCHANGED <<schema, regions, query, download, ledger, self, region, region_ship_name,
                   region_survey_name, kluster_enabled, kluster_configured,
                   server_reconnect_retries, fs, faults, crawl_no>>

LiveNext == StartCrawl \/ EnterFrame \/ LiveConnect \/ Anchor \/ FrameEnd

\* the interpreter keeps executing the one thread of the crawl
SpecLive == LiveInit /\ [][LiveNext]_vars /\ WF_vars(LiveNext)

\* C34: a crawl that was started eventually returns from ncei_scrape with the
\* ledger closed
C34_CrawlTerminates == (pc = "crawl") ~> (pc = "done")

\* while connect_to_server is in its loop the loop test holds after any number of
\* non-2xx answers, and every such answer has raised the bound by one
LoopTestStaysTrue ==
    (pc = "crawl" /\ Top.at = "connect") =>
        /\ conn.current_tries < conn.retries
        /\ conn.retries = server_reconnect_retries + conn.gets

-----------------------------------------------------------------------------
(* What a failed download leaves on disk                                   *)

\* C35: when download_multibeam_file has returned False its destination path does
\* not exist
C35_FailedLeavesNothing ==
    (pc = "download" /\ download.out = "false") => download.output_path \notin fs

\* a call that returned False with its destination on disk made an attempt: the
\* file is the one open() created before the read raised
FailedBeforeOpenLeavesNothing ==
    (pc = "download" /\ download.out = "false" /\ download.output_path \in fs) =>
        download.attempts > 0

-----------------------------------------------------------------------------
(* How often a survey is handed to processing                              *)

\* no raw folder was handed to processing twice in this crawl
HandoffAtMostOnce ==
    \A i, j \in 1..Len(hist.handoffs) :
        i # j => hist.handoffs[i] # hist.handoffs[j]

\* a step that keeps the survey the crawl holds, taken when a handoff of this crawl
\* has exported its grid and grid_path is set, leaves grid_path set
ExportedGridPathKept ==
    ( /\ pc = "crawl"
      /\ Key(self.ship_name, self.survey_name) \in hist.exported
      /\ self.grid_path # << >>
      /\ self'.ship_name = self.ship_name
      /\ self'.survey_name = self.survey_name )
        => self'.grid_path # << >>

\* C36: within one crawl a survey is handed to processing at most once, and the
\* grid_path of a survey whose handoff exported a grid is not cleared by a later
\* handoff before its record is committed
C36_Step == HandoffAtMostOnce' /\ ExportedGridPathKept

C36_HandoffOncePerSurvey == [][C36_Step]_vars

\* the first of the two alone
SurveyHandedOverOnce == [][HandoffAtMostOnce']_vars

\* the second of the two alone
ExportedGridPathNeverCleared == [][ExportedGridPathKept]_vars

-----------------------------------------------------------------------------
(* Which surveys get a row                                                 *)

\* the survey passes the region part of the skip decision: the allowed list is not
\* empty, holds the survey, and names this ship for it
PassesRegion(ship, survey) ==
    \E i \in 1..Len(region_survey_name) :
        /\ region_survey_name[i] = Lower(survey)
        /\ \A j \in 1..(i - 1) : region_survey_name[j] # Lower(survey)
        /\ ReplaceSpace(region_ship_name[i]) = ship

\* C37: a row is written only for a survey whose subtree was searched: the commit
\* at a boundary inserts no row for a survey that was skipped at its own boundary
\* for an empty allowed list, a survey not in the list or a ship mismatch
C37_SkippedSurveyNoRow ==
    (AtBoundary /\ ev.log[1].inserted) =>
        PassesRegion(ev.log[1].ship, ev.log[1].survey)

\* a commit never inserts a row for a survey skipped because its grid was complete:
\* its row is in the ledger already
CompletedSurveyNoNewRow ==
    (AtBoundary /\ ev.log[1].inserted) =>
        ~GridRow(hist.ledger0, Key(ev.log[1].ship, ev.log[1].survey))

-----------------------------------------------------------------------------
(* A survey whose processing failed is tried again                         *)

\* the survey of key k had a row with an empty grid_path when this crawl began, and
\* a handoff of this crawl exported its grid
RetriedAndExported(k) ==
    /\ HasRow(hist.ledger0, k)
    /\ ~GridRow(hist.ledger0, k)
    /\ k \in hist.exported

\* C38: when a later crawl commits a survey that was committed earlier with an
\* empty grid_path and whose handoff in this crawl exported a grid, holding the
\* path of that grid, the ledger shows a completed grid for the survey from then
\* on, so that the next crawl skips it
C38_RetryConverges ==
    (AtBoundary /\ ev.log[1].ship # << >> /\ ev.log[1].row.grid_path # << >>) =>
        LET k == Key(ev.log[1].ship, ev.log[1].survey)
        IN  RetriedAndExported(k) => GridRow(ledger, k)

\* the row of such a survey is the row the earlier crawl wrote
RetriedRowUnchanged ==
    \A i \in 1..Len(hist.ledger0) :
        RetriedAndExported(RowKey(hist.ledger0[i])) => ledger[i] = hist.ledger0[i]

-----------------------------------------------------------------------------
(* The grid path of a survey whose grid was exported                       *)

\* the commit just made inserted the row of a survey whose handoff in this crawl
\* exported a grid
CommittedExported ==
    /\ AtBoundary
    /\ ev.log[1].inserted
    /\ Key(ev.log[1].ship, ev.log[1].survey) \in hist.exported

\* the row is of a survey handed over by the shortcut: a raw folder is recorded and
\* no file was downloaded
ByShortcut(row) == row.raw_data_path # << >> /\ row.downloaded_success = 0

\* C39: the row committed for a survey whose handoff exported a grid has a
\* non-empty grid_path, whether its files were downloaded in this crawl or the
\* handoff was reached by the shortcut
C39_ExportedHasGridPath ==
    CommittedExported => ev.log[1].row.grid_path # << >>

\* the same for the surveys handed over by the shortcut alone
ShortcutExportHasGridPath ==
    (CommittedExported /\ ByShortcut(ev.log[1].row)) => ev.log[1].row.grid_path # << >>

\* the same for the surveys with a downloaded file alone
DownloadExportHasGridPath ==
    (CommittedExported /\ ~ByShortcut(ev.log[1].row)) => ev.log[1].row.grid_path # << >>

-----------------------------------------------------------------------------
(* The pairs of the region query and the skip decision                     *)

\* the ship directory of the archive for a PLATFORM value of the catalog
ShipDirectory(platform) == ReplaceSpace(Lower(platform))

\* the features the query returned
RegionFeatures == query.feature_data.features

\* C40: once _check_regions has stored the lists, every (ship, survey) pair of the
\* feature collection passes the region part of the skip decision at its URL, also
\* when two ships of the collection use the same survey identifier
C40_EveryPairPasses ==
    (ev.act = "CheckRegions" /\ pc = "idle") =>
        \A i \in 1..Len(RegionFeatures) :
            PassesRegion(ShipDirectory(RegionFeatures[i].attributes.PLATFORM),
                         RegionFeatures[i].attributes.SURVEY_ID)

\* no two features give one survey identifier, in any case, to two ships
OneShipPerSurvey ==
    \A i, j \in 1..Len(RegionFeatures) :
        Lower(RegionFeatures[i].attributes.SURVEY_ID)
            = Lower(RegionFeatures[j].attributes.SURVEY_ID)
        => RegionFeatures[i].attributes.PLATFORM = RegionFeatures[j].attributes.PLATFORM

\* the pairs pass when every survey identifier belongs to one ship
PairsPassWhenOneShipPerSurvey ==
    (ev.act = "CheckRegions" /\ pc = "idle" /\ OneShipPerSurvey) =>
        \A i \in 1..Len(RegionFeatures) :
            PassesRegion(ShipDirectory(RegionFeatures[i].attributes.PLATFORM),
                         RegionFeatures[i].attributes.SURVEY_ID)

====
